---- MODULE Spec2Model ----
(***************************************************************************)
(* Conference-history backfill of import/import_team_history.py:           *)
(* build_conference_history (backward resolver with forward scan),         *)
(* find_eventual_conference and fill_gap_years, run against the            *)
(* team_conference_history table.                                          *)
(***************************************************************************)
EXTENDS Integers, Sequences, FiniteSets, TLC

\* ------------------------------------------------------------------ bounds
NumSeasons == 3      \* seasons modelled (101 in the source: 1925..2025)
MaxTotal == 4        \* snapshot entries of all seasons together
MaxFailures == 1     \* datastore calls that raise during one run
MaxRecords == 3      \* records an upload script prepares
BatchSize == 2       \* batch_size / chunk_size (1000 in the source)
MaxCalls == 3        \* upsert_player calls that return
MaxRankings == 3     \* ranking records the API returns

\* --------------------------------------------------------------- constants
FirstSeason == 1925
FirstRosterSeason == 2005
LastSeason == FirstSeason + NumSeasons - 1
Null == 0            \* Python None / JSON null (conferenceId, conference_id)
NoSource == 0        \* a missing or falsy sourceId

Seasons == FirstSeason..LastSeason
SourceIds == {1}     \* truthy sourceId values of the snapshots
TeamIds == {2}       \* teams.id values, assigned by the datastore
Confs == {1, 2}      \* non-null conference ids

VARIABLES
    all_seasons_data,   \* season -> list of snapshot entries (non-empty lists only)
    team_id_map,        \* source_id -> teams.id
    history,            \* rows of team_conference_history, in insertion order
    attempts,           \* rows handed to insert(), in call order, with the caller
    warnings,           \* logger.warnings
    errors,             \* logger.errors
    stats,              \* logger.stats (the three counters of phases 3 and 4)
    teams_without_id,   \* local set of build_conference_history
    pc,                 \* phase of main()
    season,             \* loop variable `season` of the running phase
    idx,                \* position in teams_by_source / id_to_source
    ci,                 \* inserts already attempted of correct_conferences
    failures,           \* datastore calls that raised so far
    scan_pc,            \* position inside one call of find_eventual_conference
    scan_team,          \* its argument team_source_id
    scan_start,         \* its argument start_season
    future_season,      \* its loop variable
    scan_result,        \* its return value
    fetched,            \* seasons handed to fetch_teams_for_season, in call order
    all_teams_map,      \* source_id -> last_season and data of the team
    teams_table,        \* rows of the teams table, by source_id
    conferences,        \* ids of the rows of the conferences table
    reads,              \* tables selected from by validate_data, in call order
    script,             \* the upload script that runs: games, rankings or venues
    records,            \* the records it prepared for writing, in order
    stored,             \* ids of the records written to its table, in order
    writes,             \* its write calls, in call order, with their outcome
    failed_records,     \* ids in failed_records (import_games)
    total_inserted,     \* total_inserted / rankings_inserted
    upload_errors,      \* offsets in errors (import_rankings)
    upc,                \* position of the upload script
    offset,             \* loop variable i of the batch loop
    ri,                 \* records of the failed batch already retried
    players,            \* rows of the players table, by id
    supplied,           \* by athlete: seasons handed to calls that returned
    players_updated,    \* players_updated of import_roster_for_season
    roster_errors,      \* len(errors) of import_roster_for_season
    rankings_data,      \* the ranking records the API returned
    rankings_dict,      \* composite key -> ranking_record
    duplicates_found,   \* duplicates_found of import_all_rankings
    rank_pos,           \* records of rankings_data already processed
    existing_games,     \* ids of the rows the games table held before the run
    clear_choice,       \* the operator's answer to the clear prompt
    dup_choice,         \* the operator's answer to the duplicate prompt
    csv                 \* the rows of games.csv, in order

vars == <<all_seasons_data, team_id_map, history, attempts, warnings, errors,
          stats, teams_without_id, pc, season, idx, ci, failures,
          scan_pc, scan_team, scan_start, future_season, scan_result,
          fetched, all_teams_map, teams_table, conferences, reads,
          script, records, stored, writes, failed_records, total_inserted,
          upload_errors, upc, offset, ri,
          players, supplied, players_updated, roster_errors,
          rankings_data, rankings_dict, duplicates_found, rank_pos,
          existing_games, clear_choice, dup_choice, csv>>

runVars == <<history, attempts, warnings, errors, stats, teams_without_id,
             pc, season, idx, ci, failures>>

scanVars == <<scan_pc, scan_team, scan_start, future_season, scan_result>>

mainVars == <<fetched, all_teams_map, teams_table, conferences, reads>>

batchVars == <<script, records, stored, writes, failed_records, total_inserted,
               upload_errors, upc, offset, ri>>

rosterVars == <<players, supplied, players_updated, roster_errors>>

rankingVars == <<rankings_data, rankings_dict, duplicates_found, rank_pos>>

promptVars == <<existing_games, clear_choice, dup_choice, csv>>

importVars == <<batchVars, rosterVars, rankingVars, promptVars>>

\* ------------------------------------------------------------------ helpers
Range(seq) == {seq[i] : i \in 1..Len(seq)}

MinOf(S) == CHOOSE x \in S : \A y \in S : x <= y

MaxOf(S) == CHOOSE x \in S : \A y \in S : x >= y

RECURSIVE SortedSeq(_)
SortedSeq(S) ==
    IF S = {} THEN <<>> ELSE <<MinOf(S)>> \o SortedSeq(S \ {MinOf(S)})

\* ------------------------------------------------------------------- inputs
Entry == [sourceId : SourceIds, conferenceId : Confs \cup {Null}]

\* what one fetch may return in k entries: entries of the teams, or one
\* entry that lacks a sourceId
SeasonLists(k) ==
    [1..k -> Entry] \cup
        (IF k = 1 THEN {<<[sourceId |-> NoSource, conferenceId |-> Null]>>} ELSE {})

\* collect_all_seasons_data for the seasons s..LastSeason, n entries at most:
\* a season is kept only when its fetch returned a non-empty list
\* (lines 134-135)
RECURSIVE Collected(_, _)
Collected(s, n) ==
    IF s > LastSeason THEN {<<>>}
    ELSE UNION {{IF teams = <<>> THEN rest ELSE (s :> teams) @@ rest :
                    teams \in SeasonLists(k), rest \in Collected(s + 1, n - k)} :
                k \in 0..n}

Snapshots == Collected(FirstSeason, MaxTotal)

\* get_team_id_map: teams.source_id is the conflict target of the upsert, so
\* the map is injective; a team whose upsert failed is missing from it
TeamIdMaps ==
    UNION {[D -> TeamIds] : D \in SUBSET SourceIds}

InjectiveMaps == {m \in TeamIdMaps : \A a, b \in DOMAIN m : m[a] = m[b] => a = b}

Row(t, s, c, e) == [team_id |-> t, season |-> s, conference_id |-> c, existed |-> e]

\* what an earlier run left in the table
StaleTable == <<Row(2, FirstSeason + 1, 1, TRUE)>>

\* ------------------------------------------------- pure functions of the code
EntriesOf(s, sid) ==
    SelectSeq(all_seasons_data[s], LAMBDA t : t.sourceId = sid)

\* reads the key 'conference' instead of 'conferenceId'
ConfsOfWrongKey(entries) == [i \in 1..Len(entries) |-> Null]

ConfsOf(entries) == [i \in 1..Len(entries) |-> entries[i].conferenceId]

\* keys of teams_by_source, in insertion order
RECURSIVE KeysOf(_)
KeysOf(entries) ==
    IF entries = <<>> THEN <<>>
    ELSE LET front == KeysOf(SubSeq(entries, 1, Len(entries) - 1))
             last == entries[Len(entries)].sourceId
         IN IF last = NoSource \/ last \in Range(front)
            THEN front ELSE Append(front, last)

teams_by_source(s) == KeysOf(all_seasons_data[s])

\* treats a season missing from the map as the team having disappeared
ScanStepAbsentIsDefunct(sid, fs) ==
    IF fs \notin DOMAIN all_seasons_data THEN "defunct"
    ELSE IF Len(EntriesOf(fs, sid)) = 1 THEN "single"
    ELSE IF Len(EntriesOf(fs, sid)) = 0 THEN "defunct"
    ELSE "duplicate"

\* one iteration of the loop of find_eventual_conference (lines 229-240)
ScanStep(sid, fs) ==
    IF fs \notin DOMAIN all_seasons_data THEN "absent"
    ELSE IF Len(EntriesOf(fs, sid)) = 1 THEN "single"
    ELSE IF Len(EntriesOf(fs, sid)) = 0 THEN "defunct"
    ELSE "duplicate"

\* reads the key 'conference' of the single entry, which the entries lack
RECURSIVE find_eventual_wrong_key(_, _)
find_eventual_wrong_key(sid, fs) ==
    IF fs > LastSeason THEN Null
    ELSE IF ScanStep(sid, fs) = "single" THEN Null
    ELSE IF ScanStep(sid, fs) = "defunct" THEN Null
    ELSE find_eventual_wrong_key(sid, fs + 1)

RECURSIVE find_eventual_from(_, _)
find_eventual_from(sid, fs) ==
    IF fs > LastSeason THEN Null
    ELSE IF ScanStep(sid, fs) = "single" THEN EntriesOf(fs, sid)[1].conferenceId
    ELSE IF ScanStep(sid, fs) = "defunct" THEN Null
    ELSE find_eventual_from(sid, fs + 1)

find_eventual_conference(sid, start_season) ==
    find_eventual_from(sid, start_season + 1)

\* no filtering at all
correct_conferences_unfiltered(confs, eventual_conf) == confs

\* the filter inverted: keeps the entries equal to the eventual conference
correct_conferences_inverted(confs, eventual_conf) ==
    SelectSeq(confs, LAMBDA c : c = eventual_conf)

\* stores only the first of the conferences that differ ("should only be 1")
correct_conferences_first_only(confs, eventual_conf) ==
    IF SelectSeq(confs, LAMBDA c : c # eventual_conf) = <<>> THEN <<>>
    ELSE <<SelectSeq(confs, LAMBDA c : c # eventual_conf)[1]>>

correct_conferences(confs, eventual_conf) ==
    SelectSeq(confs, LAMBDA c : c # eventual_conf)

\* list.sort() compares the elements with <, which raises TypeError as soon
\* as a None takes part in a comparison
SortRaises(confs) == Len(confs) >= 2 /\ Null \in Range(confs)

SmallestConference(confs) == MinOf(Range(confs))

\* ---------------------------------------------------------------- datastore
\* a table without the constraint
NoUniqueConstraint(table, row) == FALSE

\* UNIQUE (team_id, season) of team_conference_history: the table is created
\* outside the import scripts, which only name the constraint (line 409); an
\* insert of a second row for a pair raises
UniqueViolation(table, row) ==
    \E i \in 1..Len(table) :
        table[i].team_id = row.team_id /\ table[i].season = row.season

FailChoices == IF failures < MaxFailures THEN BOOLEAN ELSE {FALSE}

InsertOk(row, fail) == ~fail /\ ~UniqueViolation(history, row)

Attempt(by, row) ==
    [by |-> by, team_id |-> row.team_id, season |-> row.season,
     conference_id |-> row.conference_id, existed |-> row.existed]

LogEntry(kind, who, s) == [kind |-> kind, who |-> who, season |-> s]

Bump(key) == [stats EXCEPT ![key] = @ + 1]

\* --------------------------------------------------------- loop positions
\* range(2025, 1925, -1): the first season is never processed
RECURSIVE ResolvePosSkipsFirst(_, _)
ResolvePosSkipsFirst(s, i) ==
    IF s <= FirstSeason THEN [found |-> FALSE, season |-> 0, idx |-> 0]
    ELSE IF s \in DOMAIN all_seasons_data /\ i <= Len(teams_by_source(s))
         THEN [found |-> TRUE, season |-> s, idx |-> i]
         ELSE ResolvePosSkipsFirst(s - 1, 1)

\* range(1925, 2026): the seasons ascend
RECURSIVE ResolvePosUpward(_, _)
ResolvePosUpward(s, i) ==
    IF s > LastSeason THEN [found |-> FALSE, season |-> 0, idx |-> 0]
    ELSE IF s \in DOMAIN all_seasons_data /\ i <= Len(teams_by_source(s))
         THEN [found |-> TRUE, season |-> s, idx |-> i]
         ELSE ResolvePosUpward(s + 1, 1)

ResolvePosAscending(s, i) ==
    IF s = LastSeason /\ i = 1 /\ pc = "clear"
    THEN ResolvePosUpward(FirstSeason, 1) ELSE ResolvePosUpward(s, i)

\* next (season, team) of the two nested loops of lines 260-277, at or after
\* (s, i): seasons descend, seasons without data are skipped
RECURSIVE ResolvePos(_, _)
ResolvePos(s, i) ==
    IF s < FirstSeason THEN [found |-> FALSE, season |-> 0, idx |-> 0]
    ELSE IF s \in DOMAIN all_seasons_data /\ i <= Len(teams_by_source(s))
         THEN [found |-> TRUE, season |-> s, idx |-> i]
         ELSE ResolvePos(s - 1, 1)

id_to_source == [t \in {team_id_map[k] : k \in DOMAIN team_id_map} |->
                    CHOOSE k \in DOMAIN team_id_map : team_id_map[k] = t]

GapTeams == SortedSeq(DOMAIN id_to_source)

seasons_appeared(sid) ==
    {s \in DOMAIN all_seasons_data :
        \E i \in 1..Len(all_seasons_data[s]) : all_seasons_data[s][i].sourceId = sid}

\* range(first_season, last_season - 1): the season before the last is left out
GapSeasonsShortRange(sid) ==
    IF seasons_appeared(sid) = {} THEN {}
    ELSE {s \in MinOf(seasons_appeared(sid))..(MaxOf(seasons_appeared(sid)) - 2) :
            s \notin seasons_appeared(sid)}

\* the seasons of lines 382-383 that reach the lookup
GapSeasons(sid) ==
    IF seasons_appeared(sid) = {} THEN {}
    ELSE {s \in MinOf(seasons_appeared(sid))..MaxOf(seasons_appeared(sid)) :
            s \notin seasons_appeared(sid)}

RECURSIVE GapPos(_, _)
GapPos(i, s) ==
    IF i > Len(GapTeams) THEN [found |-> FALSE, season |-> 0, idx |-> 0]
    ELSE LET later == {g \in GapSeasons(id_to_source[GapTeams[i]]) : g >= s}
         IN IF later # {} THEN [found |-> TRUE, season |-> MinOf(later), idx |-> i]
            ELSE GapPos(i + 1, FirstSeason)

AfterGap(i, s) ==
    IF GapPos(i, s).found
    THEN [pc |-> "gap", season |-> GapPos(i, s).season, idx |-> GapPos(i, s).idx]
    ELSE [pc |-> "done", season |-> 0, idx |-> 0]

AfterResolve(s, i) ==
    IF ResolvePos(s, i).found
    THEN [pc |-> "resolve", season |-> ResolvePos(s, i).season,
          idx |-> ResolvePos(s, i).idx]
    ELSE AfterGap(1, FirstSeason)

Goto(p) == pc' = p.pc /\ season' = p.season /\ idx' = p.idx

\* the team the resolver is at
CurSource == teams_by_source(season)[idx]

CurEntries == EntriesOf(season, CurSource)

CurConfs == ConfsOf(CurEntries)

CurEventual == find_eventual_conference(CurSource, season)

\* season >= last_season at line 150: a later entry of the same season
\* replaces the first
RECURSIVE TrackTeamsLastEntry(_, _, _)
TrackTeamsLastEntry(map, s, entries) ==
    IF entries = <<>> THEN map
    ELSE LET team == Head(entries)
             source_id == team.sourceId
             seen == [last_season |-> s, data |-> team]
             next == IF source_id = NoSource THEN map
                     ELSE IF source_id \notin DOMAIN map
                     THEN (source_id :> seen) @@ map
                     ELSE IF s >= map[source_id].last_season
                     THEN [map EXCEPT ![source_id] = seen]
                     ELSE map
         IN TrackTeamsLastEntry(next, s, Tail(entries))

\* lines 137-154: all_teams_map after the entries of one more season
RECURSIVE TrackTeams(_, _, _)
TrackTeams(map, s, entries) ==
    IF entries = <<>> THEN map
    ELSE LET team == Head(entries)
             source_id == team.sourceId
             seen == [last_season |-> s, data |-> team]
             next == IF source_id = NoSource THEN map
                     ELSE IF source_id \notin DOMAIN map
                     THEN (source_id :> seen) @@ map
                     ELSE IF s > map[source_id].last_season
                     THEN [map EXCEPT ![source_id] = seen]
                     ELSE map
         IN TrackTeams(next, s, Tail(entries))

\* all_teams_map once the seasons up to s have been collected into data
RECURSIVE CollectedTeams(_, _)
CollectedTeams(data, s) ==
    IF s < FirstSeason THEN <<>>
    ELSE TrackTeams(CollectedTeams(data, s - 1), s,
                    IF s \in DOMAIN data THEN data[s] ELSE <<>>)

\* a row of the teams table (lines 176-190)
TeamRow(t, info) ==
    [id |-> t, last_active_season |-> info.last_season, data |-> info.data]

\* the teams table that get_team_id_map read the map m from
TeamsTableOf(m, data) ==
    [k \in DOMAIN m |->
        IF k \in DOMAIN CollectedTeams(data, LastSeason)
        THEN TeamRow(m[k], CollectedTeams(data, LastSeason)[k])
        ELSE TeamRow(m[k], [last_season |-> FirstSeason,
                            data |-> [sourceId |-> k, conferenceId |-> Null]])]

\* range(1925, 2026) of line 130
AllSeasons == [i \in 1..NumSeasons |-> FirstSeason + i - 1]

\* --------------------------------------------------------------------- Init
\* no upload script runs
IdleBatch ==
    /\ script = "none"
    /\ records = <<>>
    /\ stored = <<>>
    /\ writes = <<>>
    /\ failed_records = <<>>
    /\ total_inserted = 0
    /\ upload_errors = <<>>
    /\ upc = "idle"
    /\ offset = 0
    /\ ri = 0

IdleRoster ==
    /\ players = <<>>
    /\ supplied = <<>>
    /\ players_updated = 0
    /\ roster_errors = 0

IdleRankings ==
    /\ rankings_data = <<>>
    /\ rankings_dict = <<>>
    /\ duplicates_found = 0
    /\ rank_pos = 0

IdlePrompts ==
    /\ existing_games = <<>>
    /\ clear_choice = ""
    /\ dup_choice = ""
    /\ csv = <<>>

IdleImports ==
    /\ IdleBatch
    /\ IdleRoster
    /\ IdleRankings
    /\ IdlePrompts

IdleScan ==
    /\ scan_pc = "idle"
    /\ scan_team = 0
    /\ scan_start = 0
    /\ future_season = 0
    /\ scan_result = Null

Init ==
    /\ all_seasons_data \in Snapshots
    /\ team_id_map \in InjectiveMaps
    /\ history = StaleTable
    /\ attempts = <<>>
    /\ warnings = <<>>
    /\ errors = <<>>
    /\ stats = [history_records_created |-> 0, gap_years_filled |-> 0,
                duplicates_resolved |-> 0]
    /\ teams_without_id = {}
    /\ pc = "clear"
    /\ season = 0
    /\ idx = 0
    /\ ci = 0
    /\ failures = 0
    /\ IdleScan
    /\ fetched = AllSeasons
    /\ all_teams_map = CollectedTeams(all_seasons_data, LastSeason)
    /\ teams_table = TeamsTableOf(team_id_map, all_seasons_data)
    /\ conferences = Confs
    /\ reads = <<>>
    /\ IdleImports

\* ------------------------------------------------- build_conference_history
\* the filter .eq('id', 0) in the place of .neq('id', 0): no row matches
ClearHistoryDeletesNothing ==
    /\ pc = "clear"
    /\ \E fail \in FailChoices :
        /\ history' = history
        /\ errors' = IF fail THEN Append(errors, LogEntry("clear", 0, 0)) ELSE errors
        /\ failures' = IF fail THEN failures + 1 ELSE failures
    /\ Goto(AfterResolve(LastSeason, 1))
    /\ UNCHANGED <<all_seasons_data, team_id_map, attempts, warnings, stats,
                   teams_without_id, ci>>
    /\ UNCHANGED scanVars
    /\ UNCHANGED importVars
    /\ UNCHANGED mainVars

\* lines 249-255: delete every row; a failure is logged and the pass goes on
ClearHistory ==
    /\ pc = "clear"
    /\ \E fail \in FailChoices :
        /\ history' = IF fail THEN history ELSE <<>>
        /\ errors' = IF fail THEN Append(errors, LogEntry("clear", 0, 0)) ELSE errors
        /\ failures' = IF fail THEN failures + 1 ELSE failures
    /\ Goto(AfterResolve(LastSeason, 1))
    /\ UNCHANGED <<all_seasons_data, team_id_map, attempts, warnings, stats,
                   teams_without_id, ci>>
    /\ UNCHANGED scanVars
    /\ UNCHANGED importVars
    /\ UNCHANGED mainVars

\* except: pass in the place of the logger.error call
ResolverInsertUnlogged(row, fail) ==
    /\ attempts' = Append(attempts, Attempt("resolver", row))
    /\ history' = IF InsertOk(row, fail) THEN Append(history, row) ELSE history
    /\ errors' = errors
    /\ failures' = IF fail THEN failures + 1 ELSE failures

\* lines 290-302, 318-329, 341-352: one insert of the resolver
ResolverInsert(row, fail) ==
    /\ attempts' = Append(attempts, Attempt("resolver", row))
    /\ history' = IF InsertOk(row, fail) THEN Append(history, row) ELSE history
    /\ errors' = IF InsertOk(row, fail) THEN errors
                 ELSE Append(errors, LogEntry("insert", CurSource, season))
    /\ failures' = IF fail THEN failures + 1 ELSE failures

\* the warning is logged for every season of the team
ResolveNoTeamIdWarnsAgain ==
    /\ pc = "resolve"
    /\ CurSource \notin DOMAIN team_id_map
    /\ warnings' = Append(warnings, LogEntry("no_team_id", CurSource, season))
    /\ teams_without_id' = teams_without_id \cup {CurSource}
    /\ Goto(AfterResolve(season, idx + 1))
    /\ UNCHANGED <<all_seasons_data, team_id_map, history, attempts, errors,
                   stats, ci, failures>>
    /\ UNCHANGED scanVars
    /\ UNCHANGED importVars
    /\ UNCHANGED mainVars

\* lines 278-284
ResolveNoTeamId ==
    /\ pc = "resolve"
    /\ CurSource \notin DOMAIN team_id_map
    /\ warnings' = IF CurSource \in teams_without_id THEN warnings
                   ELSE Append(warnings, LogEntry("no_team_id", CurSource, season))
    /\ teams_without_id' = teams_without_id \cup {CurSource}
    /\ Goto(AfterResolve(season, idx + 1))
    /\ UNCHANGED <<all_seasons_data, team_id_map, history, attempts, errors,
                   stats, ci, failures>>
    /\ UNCHANGED scanVars
    /\ UNCHANGED importVars
    /\ UNCHANGED mainVars

\* lines 286-302
ResolveSingle ==
    /\ pc = "resolve"
    /\ CurSource \in DOMAIN team_id_map
    /\ Len(CurEntries) = 1
    /\ \E fail \in FailChoices :
        LET row == Row(team_id_map[CurSource], season, CurConfs[1], TRUE)
        IN /\ ResolverInsert(row, fail)
           /\ stats' = IF InsertOk(row, fail)
                       THEN Bump("history_records_created") ELSE stats
    /\ Goto(AfterResolve(season, idx + 1))
    /\ UNCHANGED <<all_seasons_data, team_id_map, warnings, teams_without_id, ci>>
    /\ UNCHANGED scanVars
    /\ UNCHANGED importVars
    /\ UNCHANGED mainVars

\* lines 304-329, the sort returns
ResolveFallback ==
    /\ pc = "resolve"
    /\ CurSource \in DOMAIN team_id_map
    /\ Len(CurEntries) > 1
    /\ CurEventual = Null
    /\ ~SortRaises(CurConfs)
    /\ warnings' = Append(warnings, LogEntry("no_eventual", CurSource, season))
    /\ \E fail \in FailChoices :
        LET row == Row(team_id_map[CurSource], season,
                       SmallestConference(CurConfs), TRUE)
        IN /\ ResolverInsert(row, fail)
           /\ stats' = [stats EXCEPT
                          !["duplicates_resolved"] = @ + 1,
                          !["history_records_created"] =
                              IF InsertOk(row, fail) THEN @ + 1 ELSE @]
    /\ Goto(AfterResolve(season, idx + 1))
    /\ UNCHANGED <<all_seasons_data, team_id_map, teams_without_id, ci>>
    /\ UNCHANGED scanVars
    /\ UNCHANGED importVars
    /\ UNCHANGED mainVars

\* lines 312-315, the sort raises TypeError: nothing catches it before main,
\* which logs it as fatal and re-raises (lines 475-479)
ResolveSortRaises ==
    /\ pc = "resolve"
    /\ CurSource \in DOMAIN team_id_map
    /\ Len(CurEntries) > 1
    /\ CurEventual = Null
    /\ SortRaises(CurConfs)
    /\ warnings' = Append(warnings, LogEntry("no_eventual", CurSource, season))
    /\ stats' = Bump("duplicates_resolved")
    /\ errors' = Append(errors, LogEntry("fatal", CurSource, season))
    /\ pc' = "crashed"
    /\ UNCHANGED <<all_seasons_data, team_id_map, history, attempts,
                   teams_without_id, season, idx, ci, failures>>
    /\ UNCHANGED scanVars
    /\ UNCHANGED importVars
    /\ UNCHANGED mainVars

\* lines 330-337
ResolveAllMatch ==
    /\ pc = "resolve"
    /\ CurSource \in DOMAIN team_id_map
    /\ Len(CurEntries) > 1
    /\ CurEventual # Null
    /\ correct_conferences(CurConfs, CurEventual) = <<>>
    /\ warnings' = Append(warnings, LogEntry("all_match", CurSource, season))
    /\ stats' = Bump("duplicates_resolved")
    /\ Goto(AfterResolve(season, idx + 1))
    /\ UNCHANGED <<all_seasons_data, team_id_map, history, attempts, errors,
                   teams_without_id, ci, failures>>
    /\ UNCHANGED scanVars
    /\ UNCHANGED importVars
    /\ UNCHANGED mainVars

\* lines 330-352: one iteration of the loop over correct_conferences
ResolveDistinct ==
    /\ pc = "resolve"
    /\ CurSource \in DOMAIN team_id_map
    /\ Len(CurEntries) > 1
    /\ CurEventual # Null
    /\ LET correct == correct_conferences(CurConfs, CurEventual)
       IN /\ correct # <<>>
          /\ \E fail \in FailChoices :
              LET row == Row(team_id_map[CurSource], season, correct[ci + 1], TRUE)
              IN /\ ResolverInsert(row, fail)
                 /\ stats' = [stats EXCEPT
                                !["duplicates_resolved"] =
                                    IF ci = 0 THEN @ + 1 ELSE @,
                                !["history_records_created"] =
                                    IF InsertOk(row, fail) THEN @ + 1 ELSE @]
          /\ IF ci + 1 = Len(correct)
             THEN ci' = 0 /\ Goto(AfterResolve(season, idx + 1))
             ELSE ci' = ci + 1 /\ UNCHANGED <<pc, season, idx>>
    /\ UNCHANGED <<all_seasons_data, team_id_map, warnings, teams_without_id>>
    /\ UNCHANGED scanVars
    /\ UNCHANGED importVars
    /\ UNCHANGED mainVars

\* ------------------------------------------------------------ fill_gap_years
CurTeamId == GapTeams[idx]

\* the lookup filters on the source_id instead of the team_id
existing_data_by_source(table, t, s) ==
    SelectSeq(table, LAMBDA r : r.team_id = id_to_source[t] /\ r.season = s)

\* line 386: select('id').eq('team_id', team_id).eq('season', season)
existing_data(table, t, s) ==
    SelectSeq(table, LAMBDA r : r.team_id = t /\ r.season = s)

\* the placeholder written with existed = True, as the resolver's rows are
PlaceholderMarkedExisting == Row(CurTeamId, season, Null, TRUE)

\* lines 390-395
Placeholder == Row(CurTeamId, season, Null, FALSE)

\* lines 382-399: the lookup raises
GapLookupFails ==
    /\ pc = "gap"
    /\ failures < MaxFailures
    /\ failures' = failures + 1
    /\ errors' = Append(errors, LogEntry("gap", CurTeamId, season))
    /\ Goto(AfterGap(idx, season + 1))
    /\ UNCHANGED <<all_seasons_data, team_id_map, history, attempts, warnings,
                   stats, teams_without_id, ci>>
    /\ UNCHANGED scanVars
    /\ UNCHANGED importVars
    /\ UNCHANGED mainVars

\* lines 386-388: the lookup finds a row
GapExisting ==
    /\ pc = "gap"
    /\ existing_data(history, CurTeamId, season) # <<>>
    /\ Goto(AfterGap(idx, season + 1))
    /\ UNCHANGED <<all_seasons_data, team_id_map, history, attempts, warnings,
                   errors, stats, teams_without_id, ci, failures>>
    /\ UNCHANGED scanVars
    /\ UNCHANGED importVars
    /\ UNCHANGED mainVars

\* lines 388-399: the lookup finds nothing, the placeholder is inserted
GapInsert ==
    /\ pc = "gap"
    /\ existing_data(history, CurTeamId, season) = <<>>
    /\ \E fail \in FailChoices :
        /\ attempts' = Append(attempts, Attempt("gap", Placeholder))
        /\ history' = IF InsertOk(Placeholder, fail)
                      THEN Append(history, Placeholder) ELSE history
        /\ stats' = IF InsertOk(Placeholder, fail)
                    THEN Bump("gap_years_filled") ELSE stats
        /\ errors' = IF InsertOk(Placeholder, fail) THEN errors
                     ELSE Append(errors, LogEntry("gap", CurTeamId, season))
        /\ failures' = IF fail THEN failures + 1 ELSE failures
    /\ Goto(AfterGap(idx, season + 1))
    /\ UNCHANGED <<all_seasons_data, team_id_map, warnings, teams_without_id, ci>>
    /\ UNCHANGED scanVars
    /\ UNCHANGED importVars
    /\ UNCHANGED mainVars

Next ==
    \/ ClearHistory
    \/ ResolveNoTeamId
    \/ ResolveSingle
    \/ ResolveFallback
    \/ ResolveSortRaises
    \/ ResolveAllMatch
    \/ ResolveDistinct
    \/ GapLookupFails
    \/ GapExisting
    \/ GapInsert

Spec == Init /\ [][Next]_vars

\* ---------------------------------------------------------------- main()
\* entries collected so far
RECURSIVE TotalEntries(_, _)
TotalEntries(data, s) ==
    IF s < FirstSeason THEN 0
    ELSE TotalEntries(data, s - 1) + (IF s \in DOMAIN data THEN Len(data[s]) ELSE 0)

\* entries that the fetches of one run of main() return together
MaxFetched == MaxTotal - 1

\* what a fetch may still return
Fetchable == 0..(MaxFetched - TotalEntries(all_seasons_data, LastSeason))

\* keeps the empty list of a failed or empty fetch in the map
KeptAlways(data, s, result) == (s :> result) @@ data

\* lines 134-135: only a non-empty list enters the map
Kept(data, s, result) ==
    IF result # <<>> THEN (s :> result) @@ data ELSE data

\* all_teams_map.items(), in insertion order
TeamsOrder(map) == SortedSeq(DOMAIN map)

AfterUpsert(map, i) ==
    IF i <= Len(TeamsOrder(map))
    THEN [pc |-> "upsert_teams", season |-> 0, idx |-> i]
    ELSE [pc |-> "map", season |-> 0, idx |-> 0]

\* the return of line 162 indented into the loop over the seasons
AfterFetchReturnsInLoop(map, s) == AfterUpsert(map, 1)

AfterFetch(map, s) ==
    IF s <= LastSeason
    THEN [pc |-> "collect", season |-> s, idx |-> 0]
    ELSE AfterUpsert(map, 1)

\* lines 108-121 and 130-157: one iteration of collect_all_seasons_data; a
\* request that raises is logged and yields []
FetchSeason ==
    /\ pc = "collect"
    /\ fetched' = Append(fetched, season)
    /\ \/ /\ failures < MaxFailures
          /\ failures' = failures + 1
          /\ errors' = Append(errors, LogEntry("fetch", 0, season))
          /\ all_seasons_data' = Kept(all_seasons_data, season, <<>>)
          /\ all_teams_map' = all_teams_map
       \/ /\ \E k \in Fetchable : \E result \in SeasonLists(k) :
               /\ all_seasons_data' = Kept(all_seasons_data, season, result)
               /\ all_teams_map' = TrackTeams(all_teams_map, season, result)
          /\ UNCHANGED <<failures, errors>>
    /\ Goto(AfterFetch(all_teams_map', season + 1))
    /\ UNCHANGED <<team_id_map, history, attempts, warnings, stats,
                   teams_without_id, ci, teams_table, conferences, reads>>
    /\ UNCHANGED scanVars
    /\ UNCHANGED importVars

\* teams.id of a new row: assigned by the datastore
NewTeamId(table) ==
    CHOOSE t \in TeamIds : \A k \in DOMAIN table : table[k].id # t

\* lines 193-196: upsert(team_data, on_conflict='source_id')
Upserted(table, source_id, info) ==
    IF source_id \in DOMAIN table
    THEN [table EXCEPT ![source_id] = TeamRow(@.id, info)]
    ELSE (source_id :> TeamRow(NewTeamId(table), info)) @@ table

\* lines 168-202: one iteration of upsert_teams
UpsertTeam ==
    /\ pc = "upsert_teams"
    /\ LET source_id == TeamsOrder(all_teams_map)[idx]
       IN \E fail \in FailChoices :
            /\ teams_table' = IF fail THEN teams_table
                              ELSE Upserted(teams_table, source_id,
                                            all_teams_map[source_id])
            /\ errors' = IF fail
                         THEN Append(errors, LogEntry("upsert_team", source_id,
                                         all_teams_map[source_id].last_season))
                         ELSE errors
            /\ failures' = IF fail THEN failures + 1 ELSE failures
    /\ Goto(AfterUpsert(all_teams_map, idx + 1))
    /\ UNCHANGED <<all_seasons_data, team_id_map, history, attempts, warnings,
                   stats, teams_without_id, ci, fetched, all_teams_map,
                   conferences, reads>>
    /\ UNCHANGED scanVars
    /\ UNCHANGED importVars

\* lines 207-221: the select is outside any try; when it raises, main logs
\* the error as fatal and re-raises (lines 475-479)
GetTeamIdMap ==
    /\ pc = "map"
    /\ \/ /\ failures < MaxFailures
          /\ failures' = failures + 1
          /\ errors' = Append(errors, LogEntry("fatal", 0, 0))
          /\ pc' = "crashed"
          /\ UNCHANGED team_id_map
       \/ /\ team_id_map' = [k \in DOMAIN teams_table |-> teams_table[k].id]
          /\ pc' = "clear"
          /\ UNCHANGED <<failures, errors>>
    /\ UNCHANGED <<all_seasons_data, history, attempts, warnings, stats,
                   teams_without_id, season, idx, ci>>
    /\ UNCHANGED scanVars
    /\ UNCHANGED importVars
    /\ UNCHANGED mainVars

\* the tables validate_data selects from, in call order (lines 413, 414,
\* 427, 432, 433)
ValidateSelects ==
    <<"team_conference_history", "conferences", "team_conference_history",
      "teams", "team_conference_history">>

\* lines 416-419
orphaned(table, valid_conf_ids) ==
    {table[i].conference_id : i \in {j \in 1..Len(table) :
                                        table[j].conference_id # Null}}
        \ valid_conf_ids

\* the warning of lines 420-421 is logged once the first two selects returned
OrphanWarning(n) ==
    IF n >= 2 /\ orphaned(history, conferences) # {}
    THEN Append(warnings, LogEntry("orphaned", 0, 0)) ELSE warnings

\* validation that repairs: the rows with an orphaned conference id deleted
ValidateDataDeletesOrphans ==
    /\ pc = "done"
    /\ \/ /\ failures < MaxFailures
          /\ \E n \in 1..Len(ValidateSelects) :
               /\ reads' = reads \o SubSeq(ValidateSelects, 1, n)
               /\ warnings' = OrphanWarning(n - 1)
          /\ failures' = failures + 1
          /\ errors' = Append(errors, LogEntry("fatal", 0, 0))
          /\ pc' = "crashed"
          /\ history' = history
       \/ /\ reads' = reads \o ValidateSelects
          /\ warnings' = OrphanWarning(Len(ValidateSelects))
          /\ pc' = "summary"
          /\ history' = SelectSeq(history,
                 LAMBDA r : r.conference_id \notin orphaned(history, conferences))
          /\ UNCHANGED <<failures, errors>>
    /\ UNCHANGED <<all_seasons_data, team_id_map, attempts, stats,
                   teams_without_id, season, idx, ci, fetched, all_teams_map,
                   teams_table, conferences>>
    /\ UNCHANGED scanVars
    /\ UNCHANGED importVars

\* lines 403-437: five selects and nothing else; none is inside a try, so a
\* select that raises ends the run through lines 475-479
ValidateData ==
    /\ pc = "done"
    /\ \/ /\ failures < MaxFailures
          /\ \E n \in 1..Len(ValidateSelects) :
               /\ reads' = reads \o SubSeq(ValidateSelects, 1, n)
               /\ warnings' = OrphanWarning(n - 1)
          /\ failures' = failures + 1
          /\ errors' = Append(errors, LogEntry("fatal", 0, 0))
          /\ pc' = "crashed"
       \/ /\ reads' = reads \o ValidateSelects
          /\ warnings' = OrphanWarning(Len(ValidateSelects))
          /\ pc' = "summary"
          /\ UNCHANGED <<failures, errors>>
    /\ UNCHANGED <<all_seasons_data, team_id_map, history, attempts, stats,
                   teams_without_id, season, idx, ci, fetched, all_teams_map,
                   teams_table, conferences>>
    /\ UNCHANGED scanVars
    /\ UNCHANGED importVars

\* lines 468-473: print_summary and the closing messages
PrintSummary ==
    /\ pc = "summary"
    /\ pc' = "finished"
    /\ UNCHANGED <<all_seasons_data, team_id_map, history, attempts, warnings,
                   errors, stats, teams_without_id, season, idx, ci, failures>>
    /\ UNCHANGED scanVars
    /\ UNCHANGED importVars
    /\ UNCHANGED mainVars

\* main() from phase 1 on: phase 0 has loaded the conferences
InitMain ==
    /\ all_seasons_data = <<>>
    /\ team_id_map = <<>>
    /\ history = StaleTable
    /\ attempts = <<>>
    /\ warnings = <<>>
    /\ errors = <<>>
    /\ stats = [history_records_created |-> 0, gap_years_filled |-> 0,
                duplicates_resolved |-> 0]
    /\ teams_without_id = {}
    /\ pc = "collect"
    /\ season = FirstSeason
    /\ idx = 0
    /\ ci = 0
    /\ failures = 0
    /\ IdleScan
    /\ fetched = <<>>
    /\ all_teams_map = <<>>
    /\ teams_table = <<>>
    /\ conferences = Confs
    /\ reads = <<>>
    /\ IdleImports

NextMain ==
    \/ FetchSeason
    \/ UpsertTeam
    \/ GetTeamIdMap
    \/ ClearHistory
    \/ ResolveNoTeamId
    \/ ResolveSingle
    \/ ResolveFallback
    \/ ResolveSortRaises
    \/ ResolveAllMatch
    \/ ResolveDistinct
    \/ GapLookupFails
    \/ GapExisting
    \/ GapInsert
    \/ ValidateData
    \/ PrintSummary

SpecMain == InitMain /\ [][NextMain]_vars

\* ------------------------------------------------- validate_data on its own
ValidateRows == {Row(t, s, c, e) : t \in TeamIds, s \in Seasons,
                                   c \in Confs \cup {Null}, e \in BOOLEAN}

\* tables of up to two rows that respect UNIQUE (team_id, season)
ValidateTables ==
    {<<>>} \cup {<<r>> : r \in ValidateRows}
           \cup {<<p[1], p[2]>> :
                    p \in {x \in ValidateRows \X ValidateRows :
                             x[2].season > x[1].season}}

\* the state validate_data is called in: some history table, some
\* conferences table, some teams table
InitValidate ==
    /\ all_seasons_data = <<>>
    /\ team_id_map \in InjectiveMaps
    /\ history \in ValidateTables
    /\ attempts = <<>>
    /\ warnings = <<>>
    /\ errors = <<>>
    /\ stats = [history_records_created |-> 0, gap_years_filled |-> 0,
                duplicates_resolved |-> 0]
    /\ teams_without_id = {}
    /\ pc = "done"
    /\ season = 0
    /\ idx = 0
    /\ ci = 0
    /\ failures = 0
    /\ IdleScan
    /\ fetched = AllSeasons
    /\ all_teams_map = <<>>
    /\ teams_table = TeamsTableOf(team_id_map, all_seasons_data)
    /\ conferences \in SUBSET Confs
    /\ reads = <<>>
    /\ IdleImports

NextValidate ==
    \/ ValidateData
    \/ PrintSummary

SpecValidate == InitValidate /\ [][NextValidate]_vars

\* ------------------------------------- a run over an earlier run's placeholder
\* an earlier run, whose fetch of a season had failed, left a gap-year
\* placeholder for the team in that season
StalePlaceholder == <<Row(2, FirstSeason + 1, Null, FALSE)>>

InitRerun ==
    /\ all_seasons_data \in Snapshots
    /\ team_id_map \in InjectiveMaps
    /\ history = StalePlaceholder
    /\ attempts = <<>>
    /\ warnings = <<>>
    /\ errors = <<>>
    /\ stats = [history_records_created |-> 0, gap_years_filled |-> 0,
                duplicates_resolved |-> 0]
    /\ teams_without_id = {}
    /\ pc = "clear"
    /\ season = 0
    /\ idx = 0
    /\ ci = 0
    /\ failures = 0
    /\ IdleScan
    /\ fetched = AllSeasons
    /\ all_teams_map = CollectedTeams(all_seasons_data, LastSeason)
    /\ teams_table = TeamsTableOf(team_id_map, all_seasons_data)
    /\ conferences = Confs
    /\ reads = <<>>
    /\ IdleImports

SpecRerun == InitRerun /\ [][Next]_vars

\* ------------------------------------------------------ the upload scripts
\* import_games.py, import_rankings.py and import_venues.py write the
\* records they prepared in batches
UploadScripts == {"games", "rankings", "venues"}

\* the scripts whose loop is "batch insert with individual retry":
\* import_games.py, import_team_game_stats.py, import_player_game_stats.py
RetryScripts == {"games", "team_game_stats", "player_game_stats"}

\* a prepared record; the datastore refuses every write that holds a bad one
Record(i, bad) == [id |-> i, bad |-> bad]

Prepared ==
    UNION {{[i \in 1..n |-> Record(i, b[i])] : b \in [1..n -> BOOLEAN]} :
              n \in 0..MaxRecords}

IdsOf(recs) == [i \in 1..Len(recs) |-> recs[i].id]

\* import_venues writes all its records in one call
ChunkSize == IF script = "venues" THEN Len(records) ELSE BatchSize

\* records[i:i + batch_size]
Batch ==
    SubSeq(records, offset + 1,
           IF offset + ChunkSize < Len(records) THEN offset + ChunkSize
           ELSE Len(records))

\* outcomes of a write call: it raises when it holds a bad record, and may
\* raise on its own
WriteRaises(recs) ==
    IF \E i \in 1..Len(recs) : recs[i].bad THEN {TRUE}
    ELSE IF failures < MaxFailures THEN BOOLEAN ELSE {FALSE}

Transient(recs, raises) ==
    raises /\ ~\E i \in 1..Len(recs) : recs[i].bad

Write(kind, recs, raises) == [kind |-> kind, ids |-> IdsOf(recs), ok |-> ~raises]

\* every script only logs a failed batch
OnBatchFailureLogsOnly(s) ==
    IF s = "venues" THEN "return" ELSE "log"

\* what the except clause of the batch write does: import_games.py lines
\* 129-146, import_rankings.py lines 170-173, import_venues.py lines 92-94
OnBatchFailure(s) ==
    IF s \in RetryScripts THEN "retry"
    ELSE IF s = "rankings" THEN "log"
    ELSE "return"

AfterBatch(i) ==
    IF i < Len(records) THEN [upc |-> "batch", offset |-> i]
    ELSE [upc |-> "summary", offset |-> i]

UploadFrame ==
    /\ UNCHANGED <<all_seasons_data, team_id_map, history, attempts, warnings,
                   errors, stats, teams_without_id, pc, season, idx, ci>>
    /\ UNCHANGED scanVars
    /\ UNCHANGED mainVars
    /\ UNCHANGED <<rosterVars, rankingVars, promptVars>>

\* the batch write returns: import_games.py lines 125-128,
\* import_rankings.py lines 159-164, import_venues.py lines 83-90
BatchWritten ==
    /\ upc = "batch"
    /\ FALSE \in WriteRaises(Batch)
    /\ writes' = Append(writes, Write("batch", Batch, FALSE))
    /\ stored' = stored \o IdsOf(Batch)
    /\ total_inserted' = IF script = "venues" THEN total_inserted
                         ELSE total_inserted + Len(Batch)
    /\ upc' = AfterBatch(offset + ChunkSize).upc
    /\ offset' = AfterBatch(offset + ChunkSize).offset
    /\ UNCHANGED <<script, records, failed_records, upload_errors, ri, failures>>
    /\ UploadFrame

\* the batch write raises
BatchFailed ==
    /\ upc = "batch"
    /\ TRUE \in WriteRaises(Batch)
    /\ writes' = Append(writes, Write("batch", Batch, TRUE))
    /\ failures' = IF Transient(Batch, TRUE) THEN failures + 1 ELSE failures
    /\ \/ /\ OnBatchFailure(script) = "retry"
          /\ upc' = "retry"
          /\ ri' = 0
          /\ UNCHANGED <<offset, upload_errors>>
       \/ /\ OnBatchFailure(script) = "log"
          /\ upload_errors' = Append(upload_errors, offset)
          /\ upc' = AfterBatch(offset + ChunkSize).upc
          /\ offset' = AfterBatch(offset + ChunkSize).offset
          /\ UNCHANGED ri
       \/ /\ OnBatchFailure(script) = "return"
          /\ upc' = "returned"
          /\ UNCHANGED <<offset, upload_errors, ri>>
    /\ UNCHANGED <<script, records, stored, failed_records, total_inserted>>
    /\ UploadFrame

\* a record whose own write raised is counted as inserted all the same
RetryRecordCountsFailure ==
    /\ upc = "retry"
    /\ LET record == Batch[ri + 1]
       IN \E raises \in WriteRaises(<<record>>) :
            /\ writes' = Append(writes, Write("single", <<record>>, raises))
            /\ stored' = IF raises THEN stored ELSE Append(stored, record.id)
            /\ total_inserted' = total_inserted + 1
            /\ failed_records' = IF raises THEN Append(failed_records, record.id)
                                 ELSE failed_records
            /\ failures' = IF Transient(<<record>>, raises) THEN failures + 1
                           ELSE failures
    /\ IF ri + 1 = Len(Batch)
       THEN /\ ri' = 0
            /\ upc' = AfterBatch(offset + ChunkSize).upc
            /\ offset' = AfterBatch(offset + ChunkSize).offset
       ELSE /\ ri' = ri + 1
            /\ UNCHANGED <<upc, offset>>
    /\ UNCHANGED <<script, records, upload_errors>>
    /\ UploadFrame

\* import_games.py lines 136-146, import_team_game_stats.py lines 301-310,
\* import_player_game_stats.py lines 222-231: one record of the failed batch
\* on its own
RetryRecord ==
    /\ upc = "retry"
    /\ LET record == Batch[ri + 1]
       IN \E raises \in WriteRaises(<<record>>) :
            /\ writes' = Append(writes, Write("single", <<record>>, raises))
            /\ stored' = IF raises THEN stored ELSE Append(stored, record.id)
            /\ total_inserted' = IF raises THEN total_inserted
                                 ELSE total_inserted + 1
            /\ failed_records' = IF raises THEN Append(failed_records, record.id)
                                 ELSE failed_records
            /\ failures' = IF Transient(<<record>>, raises) THEN failures + 1
                           ELSE failures
    /\ IF ri + 1 = Len(Batch)
       THEN /\ ri' = 0
            /\ upc' = AfterBatch(offset + ChunkSize).upc
            /\ offset' = AfterBatch(offset + ChunkSize).offset
       ELSE /\ ri' = ri + 1
            /\ UNCHANGED <<upc, offset>>
    /\ UNCHANGED <<script, records, upload_errors>>
    /\ UploadFrame

\* the summary is printed
UploadSummary ==
    /\ upc = "summary"
    /\ upc' = "finished"
    /\ UNCHANGED <<script, records, stored, writes, failed_records,
                   total_inserted, upload_errors, offset, ri, failures>>
    /\ UploadFrame

InitUpload ==
    /\ all_seasons_data = <<>>
    /\ team_id_map = <<>>
    /\ history = <<>>
    /\ attempts = <<>>
    /\ warnings = <<>>
    /\ errors = <<>>
    /\ stats = [history_records_created |-> 0, gap_years_filled |-> 0,
                duplicates_resolved |-> 0]
    /\ teams_without_id = {}
    /\ pc = "upload"
    /\ season = 0
    /\ idx = 0
    /\ ci = 0
    /\ failures = 0
    /\ IdleScan
    /\ fetched = <<>>
    /\ all_teams_map = <<>>
    /\ teams_table = <<>>
    /\ conferences = Confs
    /\ reads = <<>>
    /\ script \in UploadScripts
    /\ records \in Prepared
    /\ stored = <<>>
    /\ writes = <<>>
    /\ failed_records = <<>>
    /\ total_inserted = 0
    /\ upload_errors = <<>>
    /\ upc = (IF records = <<>> THEN "summary" ELSE "batch")
    /\ offset = 0
    /\ ri = 0
    /\ IdleRoster
    /\ IdleRankings
    /\ IdlePrompts

NextUpload ==
    \/ BatchWritten
    \/ BatchFailed
    \/ RetryRecord
    \/ UploadSummary

SpecUpload == InitUpload /\ [][NextUpload]_vars

\* the three loops with individual retry
InitRetry ==
    /\ all_seasons_data = <<>>
    /\ team_id_map = <<>>
    /\ history = <<>>
    /\ attempts = <<>>
    /\ warnings = <<>>
    /\ errors = <<>>
    /\ stats = [history_records_created |-> 0, gap_years_filled |-> 0,
                duplicates_resolved |-> 0]
    /\ teams_without_id = {}
    /\ pc = "upload"
    /\ season = 0
    /\ idx = 0
    /\ ci = 0
    /\ failures = 0
    /\ IdleScan
    /\ fetched = <<>>
    /\ all_teams_map = <<>>
    /\ teams_table = <<>>
    /\ conferences = Confs
    /\ reads = <<>>
    /\ script \in RetryScripts
    /\ records \in Prepared
    /\ stored = <<>>
    /\ writes = <<>>
    /\ failed_records = <<>>
    /\ total_inserted = 0
    /\ upload_errors = <<>>
    /\ upc = (IF records = <<>> THEN "summary" ELSE "batch")
    /\ offset = 0
    /\ ri = 0
    /\ IdleRoster
    /\ IdleRankings
    /\ IdlePrompts

SpecRetry == InitRetry /\ [][NextUpload]_vars

\* --------------------------------------------- import_games.py, the prompts
\* the row the games table holds when the script starts
ExistingGames == <<9>>

\* rows of games.csv: ids may repeat
CsvInputs ==
    UNION {[1..n -> {Record(i, b) : i \in 1..2, b \in BOOLEAN}] : n \in 0..MaxRecords}

\* df['id'].duplicated(): the rows whose id occurred in an earlier row
duplicated(rows) ==
    {i \in 1..Len(rows) : \E j \in 1..(i - 1) : rows[j].id = rows[i].id}

\* the rows whose id occurs in a later row
DuplicatedLater(rows) ==
    {i \in 1..Len(rows) : \E j \in (i + 1)..Len(rows) : rows[j].id = rows[i].id}

RECURSIVE Without(_, _, _)
Without(rows, dropped, i) ==
    IF i > Len(rows) THEN <<>>
    ELSE (IF i \in dropped THEN <<>> ELSE <<rows[i]>>) \o Without(rows, dropped, i + 1)

\* df.drop_duplicates(subset=['id'], keep=...)
drop_duplicates(rows, keep) ==
    IF keep = "first" THEN Without(rows, duplicated(rows), 1)
    ELSE Without(rows, DuplicatedLater(rows), 1)

\* line 118: the loop is entered with the prepared records
EnterLoop(recs) == IF recs = <<>> THEN "summary" ELSE "batch"

\* the table is cleared whatever the operator answers
AnswerClearAlwaysDeletes ==
    /\ upc = "clear_prompt"
    /\ \E choice \in {"1", "2", "other"} :
        /\ clear_choice' = choice
        /\ \/ existing_games' = <<>> /\ UNCHANGED failures
           \/ /\ failures < MaxFailures
              /\ failures' = failures + 1
              /\ UNCHANGED existing_games
    /\ upc' = "dup_check"
    /\ UNCHANGED <<script, records, stored, writes, failed_records,
                   total_inserted, upload_errors, offset, ri, dup_choice, csv>>
    /\ UNCHANGED <<rosterVars, rankingVars>>
    /\ UNCHANGED <<all_seasons_data, team_id_map, history, attempts, warnings,
                   errors, stats, teams_without_id, pc, season, idx, ci>>
    /\ UNCHANGED scanVars
    /\ UNCHANGED mainVars

\* lines 23-35: the answer to the clear prompt; on "1" the delete of line
\* 32 returns or raises (caught at line 34)
AnswerClear ==
    /\ upc = "clear_prompt"
    /\ \E choice \in {"1", "2", "other"} :
        /\ clear_choice' = choice
        /\ IF choice = "1"
           THEN \/ existing_games' = <<>> /\ UNCHANGED failures
                \/ /\ failures < MaxFailures
                   /\ failures' = failures + 1
                   /\ UNCHANGED existing_games
           ELSE UNCHANGED <<existing_games, failures>>
    /\ upc' = "dup_check"
    /\ UNCHANGED <<script, records, stored, writes, failed_records,
                   total_inserted, upload_errors, offset, ri, dup_choice, csv>>
    /\ UNCHANGED <<rosterVars, rankingVars>>
    /\ UNCHANGED <<all_seasons_data, team_id_map, history, attempts, warnings,
                   errors, stats, teams_without_id, pc, season, idx, ci>>
    /\ UNCHANGED scanVars
    /\ UNCHANGED mainVars

GamesFrame ==
    /\ UNCHANGED <<script, stored, writes, failed_records, total_inserted,
                   upload_errors, offset, ri, failures>>
    /\ UNCHANGED <<existing_games, clear_choice, csv>>
    /\ UNCHANGED <<rosterVars, rankingVars>>
    /\ UNCHANGED <<all_seasons_data, team_id_map, history, attempts, warnings,
                   errors, stats, teams_without_id, pc, season, idx, ci>>
    /\ UNCHANGED scanVars
    /\ UNCHANGED mainVars

\* lines 37-45 and 66-69: the CSV is read; without duplicate ids the script
\* goes on with all rows, with duplicates it asks
CheckDuplicates ==
    /\ upc = "dup_check"
    /\ IF duplicated(csv) = {}
       THEN /\ records' = csv
            /\ upc' = EnterLoop(csv)
       ELSE /\ upc' = "dup_prompt"
            /\ UNCHANGED records
    /\ UNCHANGED dup_choice
    /\ GamesFrame

\* lines 54-65: the answer to the duplicate prompt
AnswerDuplicates ==
    /\ upc = "dup_prompt"
    /\ \E choice \in {"1", "2", "3", "other"} :
        /\ dup_choice' = choice
        /\ IF choice = "1"
           THEN /\ records' = drop_duplicates(csv, "first")
                /\ upc' = "batch"
           ELSE IF choice = "2"
           THEN /\ records' = drop_duplicates(csv, "last")
                /\ upc' = "batch"
           ELSE /\ upc' = "aborted"
                /\ UNCHANGED records
    /\ GamesFrame

InitGames ==
    /\ all_seasons_data = <<>>
    /\ team_id_map = <<>>
    /\ history = <<>>
    /\ attempts = <<>>
    /\ warnings = <<>>
    /\ errors = <<>>
    /\ stats = [history_records_created |-> 0, gap_years_filled |-> 0,
                duplicates_resolved |-> 0]
    /\ teams_without_id = {}
    /\ pc = "upload"
    /\ season = 0
    /\ idx = 0
    /\ ci = 0
    /\ failures = 0
    /\ IdleScan
    /\ fetched = <<>>
    /\ all_teams_map = <<>>
    /\ teams_table = <<>>
    /\ conferences = Confs
    /\ reads = <<>>
    /\ script = "games"
    /\ records = <<>>
    /\ stored = <<>>
    /\ writes = <<>>
    /\ failed_records = <<>>
    /\ total_inserted = 0
    /\ upload_errors = <<>>
    /\ upc = "clear_prompt"
    /\ offset = 0
    /\ ri = 0
    /\ IdleRoster
    /\ IdleRankings
    /\ existing_games = ExistingGames
    /\ clear_choice = ""
    /\ dup_choice = ""
    /\ csv \in CsvInputs

NextGames ==
    \/ AnswerClear
    \/ CheckDuplicates
    \/ AnswerDuplicates
    \/ BatchWritten
    \/ BatchFailed
    \/ RetryRecord
    \/ UploadSummary

SpecGames == InitGames /\ [][NextGames]_vars

\* ------------------------------------------ phases 1 and 2 over a teams table
\* the row an earlier run upserted for the team
StaleTeams ==
    (1 :> TeamRow(2, [last_season |-> FirstSeason,
                      data |-> [sourceId |-> 1, conferenceId |-> Null]]))

InitTeams ==
    /\ all_seasons_data = <<>>
    /\ team_id_map = <<>>
    /\ history = StaleTable
    /\ attempts = <<>>
    /\ warnings = <<>>
    /\ errors = <<>>
    /\ stats = [history_records_created |-> 0, gap_years_filled |-> 0,
                duplicates_resolved |-> 0]
    /\ teams_without_id = {}
    /\ pc = "collect"
    /\ season = FirstSeason
    /\ idx = 0
    /\ ci = 0
    /\ failures = 0
    /\ IdleScan
    /\ fetched = <<>>
    /\ all_teams_map = <<>>
    /\ teams_table \in {<<>>, StaleTeams}
    /\ conferences = Confs
    /\ reads = <<>>
    /\ IdleImports

NextTeams ==
    \/ FetchSeason
    \/ UpsertTeam

SpecTeams == InitTeams /\ [][NextTeams]_vars

\* ------------------------------------------------ import_rosters.py, players
RosterSeasons == FirstRosterSeason..(FirstRosterSeason + NumSeasons - 1)

Athletes == {1}

\* a key the API record does not carry
Absent == -1

\* the fields of a roster entry that upsert_player's seasons depend on
PlayerData ==
    [id : Athletes,
     startSeason : RosterSeasons \cup {Absent},
     endSeason : RosterSeasons \cup {Absent}]

\* dict.get(key, default)
Get(value, default) == IF value = Absent THEN default ELSE value

\* the update writes the seasons of this call over the stored ones
UpdatedSeasonsOverwrite(existing_player, player_data, current_season) ==
    [first_season |-> Get(player_data.startSeason, current_season),
     last_season |-> Get(player_data.endSeason, current_season)]

\* lines 191-206: the seasons written over an existing row
UpdatedSeasons(existing_player, player_data, current_season) ==
    LET player_start_season == Get(player_data.startSeason, current_season)
        player_end_season == Get(player_data.endSeason, current_season)
        existing_last == IF existing_player.last_season = Null
                         THEN 0 ELSE existing_player.last_season
    IN [first_season |-> IF existing_player.first_season <= player_start_season
                         THEN existing_player.first_season
                         ELSE player_start_season,
        last_season |-> IF existing_last >= player_end_season
                        THEN existing_last
                        ELSE player_end_season]

\* lines 207-217: the seasons of a new row
InsertedSeasons(player_data, current_season) ==
    [first_season |-> Get(player_data.startSeason, current_season),
     last_season |-> Get(player_data.endSeason, current_season)]

\* what the calls for one athlete that returned were given
Supply(athlete, player_data, current_season) ==
    LET before == IF athlete \in DOMAIN supplied THEN supplied[athlete]
                  ELSE [starts |-> {}, ends |-> {}, seasons |-> <<>>]
    IN [starts |-> before.starts \cup {Get(player_data.startSeason, current_season)},
        ends |-> before.ends \cup {Get(player_data.endSeason, current_season)},
        seasons |-> Append(before.seasons, current_season)]

RosterFrame ==
    /\ UNCHANGED <<all_seasons_data, team_id_map>>
    /\ UNCHANGED runVars
    /\ UNCHANGED scanVars
    /\ UNCHANGED mainVars
    /\ UNCHANGED <<batchVars, rankingVars, promptVars>>

\* lines 124-132 and 164-219: upsert_player returns; upsert_roster_entry
\* returns or raises (lines 134-136)
UpsertPlayer ==
    /\ pc = "roster"
    /\ players_updated < MaxCalls
    /\ \E player_data \in PlayerData, current_season \in RosterSeasons :
        LET athlete_id == player_data.id
        IN /\ players' =
                IF athlete_id \in DOMAIN players
                THEN [players EXCEPT ![athlete_id] =
                        UpdatedSeasons(players[athlete_id], player_data, current_season)]
                ELSE (athlete_id :> InsertedSeasons(player_data, current_season))
                     @@ players
           /\ supplied' = (athlete_id :> Supply(athlete_id, player_data, current_season))
                          @@ supplied
    /\ players_updated' = players_updated + 1
    /\ \E raises \in {b \in BOOLEAN : b => roster_errors < MaxFailures} :
        roster_errors' = roster_errors + (IF raises THEN 1 ELSE 0)
    /\ RosterFrame

\* lines 169, 206 or 217 raise: the call writes nothing, lines 134-136
UpsertPlayerRaises ==
    /\ pc = "roster"
    /\ players_updated < MaxCalls
    /\ roster_errors < MaxFailures
    /\ roster_errors' = roster_errors + 1
    /\ UNCHANGED <<players, supplied, players_updated>>
    /\ RosterFrame

InitRoster ==
    /\ all_seasons_data = <<>>
    /\ team_id_map = <<>>
    /\ history = <<>>
    /\ attempts = <<>>
    /\ warnings = <<>>
    /\ errors = <<>>
    /\ stats = [history_records_created |-> 0, gap_years_filled |-> 0,
                duplicates_resolved |-> 0]
    /\ teams_without_id = {}
    /\ pc = "roster"
    /\ season = 0
    /\ idx = 0
    /\ ci = 0
    /\ failures = 0
    /\ IdleScan
    /\ fetched = <<>>
    /\ all_teams_map = <<>>
    /\ teams_table = <<>>
    /\ conferences = Confs
    /\ reads = <<>>
    /\ IdleImports

NextRoster ==
    \/ UpsertPlayer
    \/ UpsertPlayerRaises

SpecRoster == InitRoster /\ [][NextRoster]_vars

\* ---------------------------------------- import_rankings.py, deduplication
\* values of pollDate in an API record, besides null
Malformed == 1
Timestamp == 2

\* the ISO date that datetime.fromisoformat(...).date().isoformat() gives
\* for Timestamp
IsoDate == 20241014

RankWeeks == {1, 2}

RankPoints == {0, 1, 2}

\* the fields of an API record that the deduplication depends on
RankData ==
    [season : {2024}, seasonType : {1}, week : RankWeeks, pollType : {1},
     teamId : {1}, pollDate : {Null, Malformed, Timestamp}, points : RankPoints]

RankInputs == UNION {[1..n -> RankData] : n \in 1..MaxRankings}

\* lines 89-95
composite_key(rank_data) ==
    <<rank_data.season, rank_data.seasonType, rank_data.week,
      rank_data.pollType, rank_data.teamId>>

\* lines 98-107
poll_date_of(rank_data) ==
    IF rank_data.pollDate = Null THEN Null
    ELSE IF rank_data.pollDate = Timestamp THEN IsoDate
    ELSE Null

\* lines 109-123
ranking_record(rank_data) ==
    [season |-> rank_data.season, season_type |-> rank_data.seasonType,
     week |-> rank_data.week, poll_date |-> poll_date_of(rank_data),
     poll_type |-> rank_data.pollType, team_id |-> rank_data.teamId,
     points |-> rank_data.points]

\* lines 130-131: the new record replaces the one kept so far
Replaces(rank_data, existing) ==
    \/ poll_date_of(rank_data) # Null /\ existing.poll_date = Null
    \/ rank_data.points > existing.points

RankingFrame ==
    /\ UNCHANGED <<all_seasons_data, team_id_map>>
    /\ UNCHANGED runVars
    /\ UNCHANGED scanVars
    /\ UNCHANGED mainVars
    /\ UNCHANGED <<batchVars, rosterVars, promptVars>>

\* lines 86-134: one iteration of the loop over rankings_data
DedupRanking ==
    /\ pc = "rankings"
    /\ rank_pos < Len(rankings_data)
    /\ LET rank_data == rankings_data[rank_pos + 1]
           key == composite_key(rank_data)
       IN IF key \in DOMAIN rankings_dict
          THEN /\ duplicates_found' = duplicates_found + 1
               /\ rankings_dict' =
                    IF Replaces(rank_data, rankings_dict[key])
                    THEN [rankings_dict EXCEPT ![key] = ranking_record(rank_data)]
                    ELSE rankings_dict
          ELSE /\ rankings_dict' = (key :> ranking_record(rank_data)) @@ rankings_dict
               /\ UNCHANGED duplicates_found
    /\ rank_pos' = rank_pos + 1
    /\ UNCHANGED rankings_data
    /\ RankingFrame

InitRankings ==
    /\ all_seasons_data = <<>>
    /\ team_id_map = <<>>
    /\ history = <<>>
    /\ attempts = <<>>
    /\ warnings = <<>>
    /\ errors = <<>>
    /\ stats = [history_records_created |-> 0, gap_years_filled |-> 0,
                duplicates_resolved |-> 0]
    /\ teams_without_id = {}
    /\ pc = "rankings"
    /\ season = 0
    /\ idx = 0
    /\ ci = 0
    /\ failures = 0
    /\ IdleScan
    /\ fetched = <<>>
    /\ all_teams_map = <<>>
    /\ teams_table = <<>>
    /\ conferences = Confs
    /\ reads = <<>>
    /\ IdleBatch
    /\ IdleRoster
    /\ rankings_data \in RankInputs
    /\ rankings_dict = <<>>
    /\ duplicates_found = 0
    /\ rank_pos = 0
    /\ IdlePrompts

NextRankings == DedupRanking

SpecRankings == InitRankings /\ [][NextRankings]_vars

\* ------------------------------------- find_eventual_conference, step by step
InitScan ==
    /\ all_seasons_data \in Snapshots
    /\ team_id_map = <<>>
    /\ history = <<>>
    /\ attempts = <<>>
    /\ warnings = <<>>
    /\ errors = <<>>
    /\ stats = [history_records_created |-> 0, gap_years_filled |-> 0,
                duplicates_resolved |-> 0]
    /\ teams_without_id = {}
    /\ pc = "scan"
    /\ season = 0
    /\ idx = 0
    /\ ci = 0
    /\ failures = 0
    /\ scan_pc = "loop"
    /\ scan_team \in SourceIds
    /\ scan_start \in Seasons
    /\ future_season = scan_start + 1
    /\ scan_result = Null
    /\ fetched = AllSeasons
    /\ all_teams_map = CollectedTeams(all_seasons_data, LastSeason)
    /\ teams_table = <<>>
    /\ conferences = Confs
    /\ reads = <<>>
    /\ IdleImports

ScanFrame ==
    /\ UNCHANGED <<all_seasons_data, team_id_map, scan_team, scan_start>>
    /\ UNCHANGED runVars
    /\ UNCHANGED mainVars
    /\ UNCHANGED importVars

\* line 228: the range is exhausted; line 243
ScanExhausted ==
    /\ scan_pc = "loop"
    /\ future_season > LastSeason
    /\ scan_pc' = "returned"
    /\ scan_result' = Null
    /\ UNCHANGED future_season
    /\ ScanFrame

\* a season missing from the map ends the scan
ScanAbsentReturns ==
    /\ scan_pc = "loop"
    /\ future_season <= LastSeason
    /\ ScanStep(scan_team, future_season) = "absent"
    /\ scan_pc' = "returned"
    /\ scan_result' = Null
    /\ UNCHANGED future_season
    /\ ScanFrame

\* lines 229-230
ScanAbsent ==
    /\ scan_pc = "loop"
    /\ future_season <= LastSeason
    /\ ScanStep(scan_team, future_season) = "absent"
    /\ future_season' = future_season + 1
    /\ UNCHANGED <<scan_pc, scan_result>>
    /\ ScanFrame

\* lines 235-237
ScanSingle ==
    /\ scan_pc = "loop"
    /\ future_season <= LastSeason
    /\ ScanStep(scan_team, future_season) = "single"
    /\ scan_pc' = "returned"
    /\ scan_result' = EntriesOf(future_season, scan_team)[1].conferenceId
    /\ UNCHANGED future_season
    /\ ScanFrame

\* lines 238-240
ScanDefunct ==
    /\ scan_pc = "loop"
    /\ future_season <= LastSeason
    /\ ScanStep(scan_team, future_season) = "defunct"
    /\ scan_pc' = "returned"
    /\ scan_result' = Null
    /\ UNCHANGED future_season
    /\ ScanFrame

\* two or more entries: neither branch of lines 235-240 is taken
ScanDuplicate ==
    /\ scan_pc = "loop"
    /\ future_season <= LastSeason
    /\ ScanStep(scan_team, future_season) = "duplicate"
    /\ future_season' = future_season + 1
    /\ UNCHANGED <<scan_pc, scan_result>>
    /\ ScanFrame

NextScan ==
    \/ ScanExhausted
    \/ ScanAbsent
    \/ ScanSingle
    \/ ScanDefunct
    \/ ScanDuplicate

SpecScan == InitScan /\ [][NextScan]_vars

\* ============================================================== properties
RowsFor(table, t, s) ==
    SelectSeq(table, LAMBDA r : r.team_id = t /\ r.season = s)

\* the rows build_conference_history handed to insert() for a team and season
Emitted(sid, s) ==
    IF sid \in DOMAIN team_id_map
    THEN SelectSeq(attempts, LAMBDA a : /\ a.by = "resolver"
                                        /\ a.team_id = team_id_map[sid]
                                        /\ a.season = s)
    ELSE <<>>

Appears(sid, s) ==
    /\ s \in DOMAIN all_seasons_data
    /\ \E i \in 1..Len(all_seasons_data[s]) : all_seasons_data[s][i].sourceId = sid

NumEntries(sid, s) ==
    IF s \in DOMAIN all_seasons_data THEN Len(EntriesOf(s, sid)) ELSE 0

Reported(sid, s) == Range(ConfsOf(EntriesOf(s, sid)))

InActiveRange(sid, s) ==
    \E a, b \in Seasons : a <= s /\ s <= b /\ Appears(sid, a) /\ Appears(sid, b)

KeyIndex(sid, s) ==
    CHOOSE i \in 1..Len(teams_by_source(s)) : teams_by_source(s)[i] = sid

ResolverDone == pc \in {"gap", "done"}

\* build_conference_history is past the team's entries of season s
Handled(sid, s) ==
    \/ ResolverDone
    \/ /\ pc \in {"resolve", "crashed"}
       /\ \/ season < s
          \/ season = s /\ idx > KeyIndex(sid, s)

\* the run stopped on the team's entries of season s
CrashedAt(sid, s) ==
    pc = "crashed" /\ season = s /\ idx = KeyIndex(sid, s)

Logged(log, kind, who, s) ==
    \E i \in 1..Len(log) : log[i] = LogEntry(kind, who, s)

\* ---------------------------------------------------------------------- C1
\* C1 as stated, on the runs most favourable to it (no datastore call
\* raised): once both passes have completed, the table holds exactly one row
\* for every team with a team_id and every season between the team's first
\* and last appearance.
C1_Original ==
    (pc = "done" /\ errors = <<>>) =>
        \A sid \in DOMAIN team_id_map : \A s \in Seasons :
            InActiveRange(sid, s) =>
                Len(RowsFor(history, team_id_map[sid], s)) = 1

\* C1 amended: once both passes have completed, the table holds at most one
\* row for every such team and season, and exactly one unless the resolver
\* skipped the pair with the all-match warning or a datastore call for the
\* pair raised and was logged.
C1_ActiveRangeCovered ==
    pc = "done" =>
        \A sid \in DOMAIN team_id_map : \A s \in Seasons :
            InActiveRange(sid, s) =>
                LET n == Len(RowsFor(history, team_id_map[sid], s))
                IN /\ n <= 1
                   /\ \/ n = 1
                      \/ Logged(warnings, "all_match", sid, s)
                      \/ Logged(errors, "insert", sid, s)
                      \/ Logged(errors, "gap", team_id_map[sid], s)

C1_Witness ==
    /\ pc = "done"
    /\ errors = <<>>
    /\ \E sid \in DOMAIN team_id_map :
        /\ \E s \in Seasons : InActiveRange(sid, s) /\ ~Appears(sid, s)
        /\ \E s \in Seasons : NumEntries(sid, s) >= 2
        /\ \A s \in Seasons :
            InActiveRange(sid, s) =>
                Len(RowsFor(history, team_id_map[sid], s)) = 1

\* ---------------------------------------------------------------------- C2
\* C2 as stated: for every team and season with exactly one snapshot entry,
\* the finished resolver has emitted exactly one row, with the entry's
\* conference and existed = TRUE.
C2_Original ==
    ResolverDone =>
        \A sid \in SourceIds : \A s \in Seasons :
            NumEntries(sid, s) = 1 =>
                /\ Len(Emitted(sid, s)) = 1
                /\ Emitted(sid, s)[1].conference_id = EntriesOf(s, sid)[1].conferenceId
                /\ Emitted(sid, s)[1].existed

\* C2 amended: for every team that has a team_id and every season with
\* exactly one snapshot entry for it, the resolver emits nothing but a row
\* with the entry's conference and existed = TRUE, at most once, and exactly
\* once by the time it is past the team in that season. (A team without a
\* team_id gets no row.)
C2_SingleEntryEmitted ==
    \A sid \in SourceIds : \A s \in Seasons :
        NumEntries(sid, s) = 1 =>
            /\ sid \notin DOMAIN team_id_map => Emitted(sid, s) = <<>>
            /\ sid \in DOMAIN team_id_map =>
                /\ Len(Emitted(sid, s)) <= 1
                /\ Handled(sid, s) => Len(Emitted(sid, s)) = 1
                /\ \A i \in 1..Len(Emitted(sid, s)) :
                    /\ Emitted(sid, s)[i].conference_id =
                           EntriesOf(s, sid)[1].conferenceId
                    /\ Emitted(sid, s)[i].existed

C2_Witness ==
    /\ ResolverDone
    /\ \E sid \in DOMAIN team_id_map : \E s \in Seasons :
        /\ NumEntries(sid, s) = 1
        /\ EntriesOf(s, sid)[1].conferenceId # Null
        /\ Len(Emitted(sid, s)) = 1

\* ---------------------------------------------------------------------- C3
\* C3: for a team and season with two or more entries and an eventual
\* conference X, every row the resolver emits for the pair carries a
\* conference reported for the team in that season and different from X.
C3_OnlyNonEventualEmitted ==
    \A sid \in SourceIds : \A s \in Seasons :
        (NumEntries(sid, s) >= 2 /\ find_eventual_conference(sid, s) # Null) =>
            \A i \in 1..Len(Emitted(sid, s)) :
                /\ Emitted(sid, s)[i].conference_id \in Reported(sid, s)
                /\ Emitted(sid, s)[i].conference_id # find_eventual_conference(sid, s)

C3_Witness ==
    \E sid \in SourceIds : \E s \in Seasons :
        /\ NumEntries(sid, s) >= 2
        /\ find_eventual_conference(sid, s) # Null
        /\ find_eventual_conference(sid, s) \in Reported(sid, s)
        /\ Handled(sid, s)
        /\ Len(Emitted(sid, s)) = 1

\* ---------------------------------------------------------------------- C4
\* C4: in every state of a run the table holds at most one row for a
\* (team_id, season).
C4_UniqueTeamSeason ==
    \A i, j \in 1..Len(history) :
        (history[i].team_id = history[j].team_id
            /\ history[i].season = history[j].season) => i = j

\* the resolver tried a second row for a pair and the table refused it
C4_Witness ==
    /\ failures = 0
    /\ history # <<>>
    /\ \E i \in 1..Len(errors) : errors[i].kind = "insert"
    /\ \E sid \in DOMAIN team_id_map : \E s \in Seasons :
        Len(Emitted(sid, s)) >= 2

\* ---------------------------------------------------------------------- C5
\* C5: a step of fill_gap_years leaves every row of the table in place and
\* unchanged; what it adds is appended, is a placeholder, and is handed to
\* insert() only when the table holds no row for that (team_id, season).
C5_GapFillerPreservesRows ==
    [][pc = "gap" =>
        /\ Len(history') >= Len(history)
        /\ SubSeq(history', 1, Len(history)) = history
        /\ attempts' # attempts =>
            LET a == attempts'[Len(attempts')]
            IN /\ attempts' = Append(attempts, a)
               /\ a.by = "gap"
               /\ a.conference_id = Null
               /\ ~a.existed
               /\ RowsFor(history, a.team_id, a.season) = <<>>
        /\ history' # history =>
            /\ attempts' # attempts
            /\ history' = Append(history, Row(attempts'[Len(attempts')].team_id,
                                              attempts'[Len(attempts')].season,
                                              Null, FALSE))
      ]_vars

\* the gap filler met a row left by an earlier run on a gap year and kept it
C5_Witness ==
    /\ pc = "done"
    /\ \E sid \in DOMAIN team_id_map : \E s \in Seasons :
        /\ InActiveRange(sid, s)
        /\ ~Appears(sid, s)
        /\ RowsFor(history, team_id_map[sid], s) # <<>>
        /\ \A i \in 1..Len(attempts) : attempts[i].by # "gap"
        /\ ~Logged(errors, "gap", team_id_map[sid], s)

\* ---------------------------------------------------------------------- C6
\* C6: fill_gap_years reaches every season between the first and the last
\* appearance of every team with a team_id in which the team does not
\* appear, and when the table holds no row for the pair it hands the
\* placeholder (existed = FALSE, conference_id = NULL) to insert(), which
\* stores it; only a raising lookup or insert, logged as an error, prevents
\* that.
C6_GapYearsReached ==
    pc = "done" =>
        \A sid \in DOMAIN team_id_map : \A s \in Seasons :
            (InActiveRange(sid, s) /\ ~Appears(sid, s)) =>
                \/ /\ \E i \in 1..Len(attempts) :
                        attempts[i] = Attempt("gap", Row(team_id_map[sid], s, Null, FALSE))
                   /\ \/ RowsFor(history, team_id_map[sid], s) =
                            <<Row(team_id_map[sid], s, Null, FALSE)>>
                      \/ Logged(errors, "gap", team_id_map[sid], s)
                \/ /\ RowsFor(history, team_id_map[sid], s) # <<>>
                   /\ \E i \in 1..Len(errors) : errors[i].kind = "clear"
                \/ Logged(errors, "gap", team_id_map[sid], s)

C6_GapStep ==
    (pc = "gap" /\ RowsFor(history, GapTeams[idx], season) = <<>>) =>
        \/ /\ attempts' = Append(attempts, Attempt("gap", Row(GapTeams[idx], season, Null, FALSE)))
           /\ history' = Append(history, Row(GapTeams[idx], season, Null, FALSE))
           /\ stats' = [stats EXCEPT !["gap_years_filled"] = @ + 1]
           /\ errors' = errors
        \/ /\ errors' = Append(errors, LogEntry("gap", GapTeams[idx], season))
           /\ history' = history
           /\ stats' = stats

C7_Scenario(sid, s, A, B) ==
    /\ sid \in DOMAIN team_id_map
    /\ s + 2 <= LastSeason
    /\ NumEntries(sid, s) = 2
    /\ Reported(sid, s) = {A, B}
    /\ \A f \in (s + 1)..LastSeason :
        NumEntries(sid, f) = 1 /\ Reported(sid, f) = {A}

EntryCount(sid, f) ==
    IF f \in DOMAIN all_seasons_data THEN Len(EntriesOf(f, sid)) ELSE 0

\* the seasons at which the claim lets the scan stop
ClaimedStops(sid, s) ==
    {f \in (s + 1)..LastSeason : EntryCount(sid, f) <= 1}

\* the seasons at which the scan stops: a season without data is passed over
Stops(sid, s) ==
    {f \in (s + 1)..LastSeason :
        f \in DOMAIN all_seasons_data /\ EntryCount(sid, f) <= 1}

ResultAt(sid, f) ==
    IF EntryCount(sid, f) = 1 THEN EntriesOf(f, sid)[1].conferenceId ELSE Null

\* C8 as stated: the scan returns at the first later season in which the
\* team has exactly one entry or no entry at all.
C8_Original ==
    scan_pc = "returned" =>
        IF ClaimedStops(scan_team, scan_start) = {}
        THEN scan_result = Null /\ future_season = LastSeason + 1
        ELSE /\ future_season = MinOf(ClaimedStops(scan_team, scan_start))
             /\ scan_result = ResultAt(scan_team, future_season)

\* C8 amended: the scan visits s+1, s+2, ... in ascending order and returns
\* at the first season that is present in the snapshot map and holds exactly
\* one entry of the team (that entry's conference) or none (no eventual
\* conference); seasons absent from the map and seasons with two or more
\* entries are passed over, and an exhausted scan returns none.
C8_ScanStopsAtFirstPresent ==
    /\ scan_pc = "loop" =>
        /\ future_season \in (scan_start + 1)..(LastSeason + 1)
        /\ \A f \in Stops(scan_team, scan_start) : f >= future_season
    /\ scan_pc = "returned" =>
        IF Stops(scan_team, scan_start) = {}
        THEN scan_result = Null /\ future_season = LastSeason + 1
        ELSE /\ future_season = MinOf(Stops(scan_team, scan_start))
             /\ scan_result = ResultAt(scan_team, future_season)
    /\ scan_pc = "returned" =>
        scan_result = find_eventual_conference(scan_team, scan_start)

\* the scan passed over a season without data and returned a conference
C8_Witness ==
    /\ scan_pc = "returned"
    /\ scan_result # Null
    /\ future_season = scan_start + 2
    /\ scan_start + 1 \notin DOMAIN all_seasons_data

\* ---------------------------------------------------------------------- C9
\* C9, for the teams that have a team_id: for a team and season with two or
\* more entries and no eventual conference, the resolver emits exactly one
\* row, with the smallest conference id reported, and logs a warning.
C9_Claim ==
    \A sid \in DOMAIN team_id_map : \A s \in Seasons :
        (/\ NumEntries(sid, s) >= 2
         /\ find_eventual_conference(sid, s) = Null
         /\ Handled(sid, s) \/ CrashedAt(sid, s)) =>
            /\ Len(Emitted(sid, s)) = 1
            /\ \A c \in Reported(sid, s) : Emitted(sid, s)[1].conference_id <= c
            /\ Emitted(sid, s)[1].conference_id \in Reported(sid, s)
            /\ Logged(warnings, "no_eventual", sid, s)

\* --------------------------------------------------------------------- C10
AllMatch(sid, s) ==
    /\ NumEntries(sid, s) >= 2
    /\ find_eventual_conference(sid, s) # Null
    /\ Reported(sid, s) = {find_eventual_conference(sid, s)}

\* C10 as stated: for every team and season whose two or more entries all
\* equal the eventual conference, the finished resolver has emitted no row
\* and has logged a warning for the pair.
C10_Original ==
    ResolverDone =>
        \A sid \in SourceIds : \A s \in Seasons :
            AllMatch(sid, s) =>
                /\ Emitted(sid, s) = <<>>
                /\ \E i \in 1..Len(warnings) :
                    warnings[i].who = sid /\ warnings[i].season = s

C10_NothingEmitted ==
    \A sid \in SourceIds : \A s \in Seasons :
        AllMatch(sid, s) =>
            /\ Emitted(sid, s) = <<>>
            /\ (sid \in DOMAIN team_id_map /\ Handled(sid, s)) =>
                Logged(warnings, "all_match", sid, s)

C10_SkipStep ==
    (/\ pc = "resolve"
     /\ teams_by_source(season)[idx] \in DOMAIN team_id_map
     /\ AllMatch(teams_by_source(season)[idx], season)) =>
        /\ history' = history
        /\ attempts' = attempts
        /\ errors' = errors
        /\ warnings' = Append(warnings,
               LogEntry("all_match", teams_by_source(season)[idx], season))
        /\ pc' = AfterResolve(season, idx + 1).pc
        /\ season' = AfterResolve(season, idx + 1).season
        /\ idx' = AfterResolve(season, idx + 1).idx

\* C10 amended: for every team that has a team_id and every season whose two
\* or more entries all equal the eventual conference, the resolver emits no
\* row, logs the all-match warning, leaves the table as it is and goes on to
\* the next team. (For a team without a team_id it emits no row either, but
\* logs at most the missing-team_id warning, once.)
C10_AllMatchSkipped == []C10_NothingEmitted /\ [][C10_SkipStep]_vars

\* the resolver skipped such a pair and is at work on an earlier season
C10_Witness ==
    /\ pc = "resolve"
    /\ \E sid \in DOMAIN team_id_map : \E s \in Seasons :
        /\ AllMatch(sid, s)
        /\ season < s
        /\ Logged(warnings, "all_match", sid, s)
        /\ Emitted(sid, s) = <<>>

\* --------------------------------------------------------------------- C11
\* the reported conferences of a team and season that differ from the
\* eventual conference, in the order of the entries
NonEventual(sid, s) ==
    SelectSeq(ConfsOf(EntriesOf(s, sid)),
              LAMBDA c : c # find_eventual_conference(sid, s))

CountLogged(log, kind, who, s) ==
    Len(SelectSeq(log, LAMBDA e : e = LogEntry(kind, who, s)))

\* C11 as stated, on the runs in which no datastore call raised on its own:
\* once the resolver is past a team and season with two or more entries and
\* an eventual conference, the table holds one row for the pair per entry
\* that differs from the eventual conference.
C11_Original ==
    failures = 0 =>
        \A sid \in DOMAIN team_id_map : \A s \in Seasons :
            (/\ NumEntries(sid, s) >= 2
             /\ find_eventual_conference(sid, s) # Null
             /\ Handled(sid, s)) =>
                Len(RowsFor(history, team_id_map[sid], s)) =
                    Len(NonEventual(sid, s))

\* C11 amended: the resolver hands one row to insert() per entry that
\* differs from the eventual conference, in the order of the entries; the
\* table never holds more than one row for the pair, and every attempt but
\* one (every attempt, when the table already held a row for the pair or a
\* call raised) is refused and logged as an error.
C11_OneAttemptPerEntry ==
    \A sid \in DOMAIN team_id_map : \A s \in Seasons :
        (/\ NumEntries(sid, s) >= 2
         /\ find_eventual_conference(sid, s) # Null
         /\ Handled(sid, s)) =>
            /\ [i \in 1..Len(Emitted(sid, s)) |-> Emitted(sid, s)[i].conference_id]
                   = NonEventual(sid, s)
            /\ \A i \in 1..Len(Emitted(sid, s)) : Emitted(sid, s)[i].existed
            /\ Len(RowsFor(history, team_id_map[sid], s)) <= 1
            /\ NonEventual(sid, s) # <<>> =>
                CountLogged(errors, "insert", sid, s) >= Len(NonEventual(sid, s)) - 1

\* two entries differ from the eventual conference: two attempts, one row,
\* one logged error, and no call raised on its own
C11_Witness ==
    /\ failures = 0
    /\ \E sid \in DOMAIN team_id_map : \E s \in Seasons :
        /\ NumEntries(sid, s) >= 2
        /\ find_eventual_conference(sid, s) # Null
        /\ Handled(sid, s)
        /\ Len(NonEventual(sid, s)) = 2
        /\ Len(Emitted(sid, s)) = 2
        /\ Len(RowsFor(history, team_id_map[sid], s)) = 1
        /\ CountLogged(errors, "insert", sid, s) = 1

\* --------------------------------------------------------------------- C12
\* rows stored by the inserts of this run
StoredByRun == stats["history_records_created"] + stats["gap_years_filled"]

\* C12 as stated: when build_conference_history is about to make its first
\* insert the table is empty, and after both passes have completed the table
\* holds exactly the rows this run inserted.
C12_Original ==
    /\ (pc = "resolve" /\ attempts = <<>>) => history = <<>>
    /\ pc = "done" => Len(history) = StoredByRun

\* C12 amended: the delete is attempted before any insert. When it returns,
\* the table is empty at the first insert and holds from then on exactly the
\* rows this run inserted; when it raises, the failure is logged and the run
\* goes on with the rows of earlier runs still in the table.
C12_ClearedUnlessDeleteFailed ==
    /\ pc = "clear" => (attempts = <<>> /\ history = StaleTable)
    /\ (pc # "clear" /\ ~Logged(errors, "clear", 0, 0)) =>
        /\ attempts = <<>> => history = <<>>
        /\ Len(history) = StoredByRun
        /\ \A i \in 1..Len(history) : \E j \in 1..Len(attempts) :
            history[i] = Row(attempts[j].team_id, attempts[j].season,
                             attempts[j].conference_id, attempts[j].existed)
    /\ Logged(errors, "clear", 0, 0) =>
        /\ SubSeq(history, 1, Len(StaleTable)) = StaleTable
        /\ Len(history) = Len(StaleTable) + StoredByRun

\* a completed run whose delete returned, with rows of both passes stored
C12_Witness ==
    /\ pc = "done"
    /\ ~Logged(errors, "clear", 0, 0)
    /\ stats["history_records_created"] >= 2
    /\ stats["gap_years_filled"] >= 1
    /\ Len(history) = StoredByRun

\* --------------------------------------------------------------------- C13
\* the insert attempts build_conference_history makes for a team and season
ExpectedAttempts(sid, s) ==
    IF sid \notin DOMAIN team_id_map \/ NumEntries(sid, s) = 0 THEN 0
    ELSE IF NumEntries(sid, s) = 1 THEN 1
    ELSE IF find_eventual_conference(sid, s) = Null THEN 1
    ELSE Len(NonEventual(sid, s))

ResolverComplete ==
    \A sid \in SourceIds : \A s \in Seasons :
        Len(Emitted(sid, s)) = ExpectedAttempts(sid, s)

C13_Order ==
    \* the first history write (the delete) comes after the last fetch
    /\ (pc \in {"clear", "resolve", "gap", "done", "summary", "finished"}
            \/ attempts # <<>> \/ history # StaleTable) =>
        fetched = AllSeasons
    \* the gap filler starts when the resolver has made its last attempt
    /\ (pc = "gap" \/ \E i \in 1..Len(attempts) : attempts[i].by = "gap") =>
        ResolverComplete
    /\ \A i, j \in 1..Len(attempts) :
        (i < j /\ attempts[i].by = "gap") => attempts[j].by = "gap"

C13_Step ==
    /\ fetched' # fetched =>
        /\ pc = "collect"
        /\ attempts' = <<>>
        /\ history' = StaleTable
    /\ pc = "gap" =>
        /\ pc' \in {"gap", "done"}
        /\ \A i \in 1..Len(attempts') :
            i > Len(attempts) => attempts'[i].by = "gap"
    /\ pc \in {"clear", "resolve"} =>
        \A i \in 1..Len(attempts') :
            i > Len(attempts) => attempts'[i].by = "resolver"

\* C13: in every run of main the season fetches all precede the first
\* history write, and every insert attempt of build_conference_history
\* precedes every lookup and insert of fill_gap_years.
C13_PhasesInOrder == []C13_Order /\ [][C13_Step]_vars

\* both passes have written, after a run in which a fetch failed
C13_Witness ==
    /\ pc = "done"
    /\ fetched = AllSeasons
    /\ \E i \in 1..Len(attempts) : attempts[i].by = "resolver"
    /\ \E i \in 1..Len(attempts) : attempts[i].by = "gap"
    /\ \E i \in 1..Len(errors) : errors[i].kind = "fetch"

\* --------------------------------------------------------------------- C14
ResolverAttempts == SelectSeq(attempts, LAMBDA a : a.by = "resolver")

\* C14: of any two insert attempts of build_conference_history the earlier
\* one is for the later (or the same) season, the season the loop is at
\* never exceeds the season of an attempt already made, and no attempt is
\* made for a season that is absent from the snapshot map.
C14_DescendingSeasons ==
    /\ \A i, j \in 1..Len(ResolverAttempts) :
        i < j => ResolverAttempts[i].season >= ResolverAttempts[j].season
    /\ pc = "resolve" =>
        \A i \in 1..Len(ResolverAttempts) : ResolverAttempts[i].season >= season
    /\ \A i \in 1..Len(ResolverAttempts) :
        ResolverAttempts[i].season \in DOMAIN all_seasons_data

\* attempts for two seasons, the later one first, with a season without
\* data between them
C14_Witness ==
    /\ ResolverDone
    /\ \E i, j \in 1..Len(ResolverAttempts) :
        /\ i < j
        /\ ResolverAttempts[i].season = ResolverAttempts[j].season + 2
        /\ ResolverAttempts[j].season + 1 \notin DOMAIN all_seasons_data

\* --------------------------------------------------------------------- C15
CountKind(log, kind) == Len(SelectSeq(log, LAMBDA e : e.kind = kind))

GapAttempts == SelectSeq(attempts, LAMBDA a : a.by = "gap")

C15_Accounted ==
    \* every attempt of the resolver is either counted or logged
    /\ stats["history_records_created"] + CountKind(errors, "insert")
           = Len(ResolverAttempts)
    /\ stats["gap_years_filled"] <= Len(GapAttempts)
    /\ Len(GapAttempts) <= stats["gap_years_filled"] + CountKind(errors, "gap")
    \* whatever failed, every team and season the resolver is past has had
    \* all its attempts, and every gap year has been looked at
    /\ \A sid \in SourceIds : \A s \in Seasons :
        Handled(sid, s) => Len(Emitted(sid, s)) = ExpectedAttempts(sid, s)
    /\ pc = "done" =>
        \A sid \in DOMAIN team_id_map : \A s \in Seasons :
            (InActiveRange(sid, s) /\ ~Appears(sid, s)) =>
                \/ \E i \in 1..Len(GapAttempts) :
                       GapAttempts[i].team_id = team_id_map[sid]
                           /\ GapAttempts[i].season = s
                \/ RowsFor(history, team_id_map[sid], s) # <<>>
                \/ Logged(errors, "gap", team_id_map[sid], s)

\* a step whose insert stores nothing
C15_FailedInsertStep ==
    (attempts' # attempts /\ history' = history) =>
        /\ Len(errors') = Len(errors) + 1
        /\ errors'[Len(errors')].kind \in {"insert", "gap"}
        /\ errors'[Len(errors')].season = attempts'[Len(attempts')].season
        /\ SubSeq(errors', 1, Len(errors)) = errors
        /\ stats'["history_records_created"] = stats["history_records_created"]
        /\ stats'["gap_years_filled"] = stats["gap_years_filled"]
        /\ pc' # "crashed"

\* C15: an insert of the resolver or of the gap filler that fails is logged
\* as an error and not counted, the run does not stop, and every team and
\* season the pass goes through without the failure is gone through with it.
C15_InsertFailureContained == []C15_Accounted /\ [][C15_FailedInsertStep]_vars

\* an insert of the resolver raised on its own and a later season still got
\* its row, and the run completed
C15_Witness ==
    /\ pc = "done"
    /\ failures = 1
    /\ \E sid \in DOMAIN team_id_map : \E s \in Seasons :
        /\ Logged(errors, "insert", sid, s)
        /\ RowsFor(history, team_id_map[sid], s) = <<>>
        /\ \E e \in Seasons :
            e < s /\ Len(RowsFor(history, team_id_map[sid], e)) = 1
                  /\ Len(Emitted(sid, e)) = 1

\* --------------------------------------------------------------------- C16
\* C16: collect_all_seasons_data fetches the seasons in ascending order, each
\* once, and all of them whatever the earlier fetches did; a season whose
\* fetch failed has its failure in the error log and is absent from the
\* snapshot map, as is a season whose fetch returned no team.
C16_OneFetchPerSeason ==
    /\ Len(fetched) <= NumSeasons
    /\ \A i \in 1..Len(fetched) : fetched[i] = AllSeasons[i]
    /\ pc = "collect" => season = FirstSeason + Len(fetched)
    /\ pc # "collect" => fetched = AllSeasons
    /\ \A s \in Seasons :
        Logged(errors, "fetch", 0, s) =>
            /\ s \in Range(fetched)
            /\ s \notin DOMAIN all_seasons_data
            /\ CountLogged(errors, "fetch", 0, s) = 1
    /\ \A s \in DOMAIN all_seasons_data :
        s \in Range(fetched) /\ all_seasons_data[s] # <<>>

\* the fetch of a season failed and a later season was collected all the same
C16_Witness ==
    /\ pc # "collect"
    /\ fetched = AllSeasons
    /\ \E s \in Seasons :
        /\ Logged(errors, "fetch", 0, s)
        /\ s \notin DOMAIN all_seasons_data
        /\ \E later \in DOMAIN all_seasons_data : later > s

\* --------------------------------------------------------------------- C17
\* C17: in a run of main that is past phase 0 (the conferences were fetched
\* and upserted), no failing call and no snapshot data ends the run before
\* the summary: main never leaves through lines 475-479.
C17_Claim == pc # "crashed"

\* --------------------------------------------------------------------- C18
IsPrefix(a, b) == Len(a) <= Len(b) /\ SubSeq(b, 1, Len(a)) = a

C18_Validated ==
    pc \in {"summary", "finished"} =>
        /\ reads = ValidateSelects
        /\ Logged(warnings, "orphaned", 0, 0) <=> orphaned(history, conferences) # {}
        /\ Len(warnings) <= 1

C18_ValidateStep ==
    pc = "done" =>
        /\ history' = history
        /\ teams_table' = teams_table
        /\ conferences' = conferences
        /\ attempts' = attempts
        /\ IsPrefix(reads, reads')
        /\ IsPrefix(SubSeq(reads', Len(reads) + 1, Len(reads')), ValidateSelects)

\* C18: validate_data only selects: its step leaves the history, teams and
\* conferences tables as they are and hands no row to insert(); orphaned
\* conference ids get one warning and stay in the table.
C18_ValidateReadOnly == []C18_Validated /\ [][C18_ValidateStep]_vars

\* validation has run over a table with an orphaned conference id
C18_Witness ==
    /\ pc = "summary"
    /\ orphaned(history, conferences) # {}
    /\ Logged(warnings, "orphaned", 0, 0)
    /\ Len(history) = 2

\* --------------------------------------------------------------------- C19
TeamAppears(t, s) ==
    \E sid \in DOMAIN team_id_map : team_id_map[sid] = t /\ Appears(sid, s)

\* a row that marks a gap year of this run's snapshots
GapMarked(r) ==
    ~r.existed => (r.conference_id = Null /\ ~TeamAppears(r.team_id, r.season))

\* rows of the table that were in it before the run
Survivors == IF pc = "clear" \/ Logged(errors, "clear", 0, 0) THEN 1 ELSE 0

\* C19 as stated, from the delete on: every row of the table with
\* existed = FALSE has a null conference and belongs to a team and season
\* without an entry in the snapshot of that season.
C19_Original ==
    pc # "clear" => \A i \in 1..Len(history) : GapMarked(history[i])

\* C19 amended: every row with existed = FALSE that the run hands to
\* insert() comes from fill_gap_years, has a null conference and belongs to
\* a team and season without a snapshot entry; every row the resolver hands
\* to insert() has existed = TRUE and belongs to a team and season with an
\* entry; so among the rows the run stores, and in the whole table when the
\* delete succeeded, existed = FALSE holds exactly for the gap-filled rows.
\* (A placeholder of an earlier run that survives a failed delete is not
\* covered.)
C19_ExistedMarksGapRows ==
    /\ \A i \in 1..Len(attempts) :
        /\ attempts[i].by = "gap" <=> ~attempts[i].existed
        /\ GapMarked(attempts[i])
        /\ attempts[i].existed => TeamAppears(attempts[i].team_id, attempts[i].season)
    /\ \A i \in (Survivors + 1)..Len(history) :
        /\ GapMarked(history[i])
        /\ history[i].existed => TeamAppears(history[i].team_id, history[i].season)
        /\ \E j \in 1..Len(attempts) :
            /\ attempts[j].team_id = history[i].team_id
            /\ attempts[j].season = history[i].season
            /\ attempts[j].existed = history[i].existed
            /\ attempts[j].by = (IF history[i].existed THEN "resolver" ELSE "gap")

\* the delete succeeded and both passes have stored rows
C19_Witness ==
    /\ pc = "done"
    /\ Survivors = 0
    /\ \E i, j \in 1..Len(history) :
        /\ ~history[i].existed
        /\ history[j].existed
        /\ history[j].conference_id = Null

\* --------------------------------------------------------------------- C20
UploadEnded == upc \in {"summary", "finished", "returned"}

\* every record of the failed batch write k was written on its own later
RetriedAfter(k) ==
    \A n \in 1..Len(writes[k].ids) :
        \E j \in (k + 1)..Len(writes) :
            writes[j].kind = "single" /\ writes[j].ids = <<writes[k].ids[n]>>

\* no record of the failed batch write k was handed to a write again
DroppedAfter(k) ==
    \A n \in 1..Len(writes[k].ids) :
        \A j \in (k + 1)..Len(writes) :
            writes[k].ids[n] \notin Range(writes[j].ids)

FailedBatches == {k \in 1..Len(writes) : writes[k].kind = "batch" /\ ~writes[k].ok}

\* C20 as stated: in each of the scripts, once the upload has ended every
\* failed batch write has been followed by a write of each of its records on
\* its own.
C20_Original ==
    UploadEnded => \A k \in FailedBatches : RetriedAfter(k)

\* C20 amended: import_games follows a failed batch write by a write of each
\* of its records on its own, in order, and reports a record as failed only
\* when that write failed; import_rankings logs one error per failed chunk,
\* writes none of its records again and goes on with the next chunk;
\* import_venues ends at its failed write without writing anything again.
C20_RetryOnlyInGames ==
    /\ script = "games" =>
        /\ UploadEnded => \A k \in FailedBatches : RetriedAfter(k)
        /\ \A n \in 1..Len(failed_records) :
            \E j \in 1..Len(writes) :
                /\ writes[j] = [kind |-> "single", ids |-> <<failed_records[n]>>,
                                ok |-> FALSE]
                /\ \E k \in FailedBatches :
                    k < j /\ failed_records[n] \in Range(writes[k].ids)
        /\ upc # "returned" /\ upload_errors = <<>>
    /\ script = "rankings" =>
        /\ \A k \in FailedBatches : DroppedAfter(k)
        /\ \A j \in 1..Len(writes) : writes[j].kind = "batch"
        /\ Len(upload_errors) = Cardinality(FailedBatches)
        /\ failed_records = <<>>
        /\ upc # "returned"
        /\ UploadEnded => offset >= Len(records)
    /\ script = "venues" =>
        /\ Len(writes) <= 1
        /\ upc = "returned" <=> FailedBatches # {}
        /\ failed_records = <<>> /\ upload_errors = <<>>

\* import_games has retried the two records of a failed batch one by one:
\* one went in, the other is reported as failed
C20_Witness ==
    /\ script = "games"
    /\ UploadEnded
    /\ \E k \in FailedBatches :
        /\ Len(writes[k].ids) = 2
        /\ RetriedAfter(k)
        /\ writes[k].ids[1] \in Range(stored)
        /\ failed_records = <<writes[k].ids[2]>>

\* --------------------------------------------------------------------- C21
\* the greatest season collected so far in which the team appears
LastAppearance(sid) == MaxOf(seasons_appeared(sid))

\* what upsert_teams is to store for the team
ExpectedTeam(sid) ==
    [last_active_season |-> LastAppearance(sid),
     data |-> EntriesOf(LastAppearance(sid), sid)[1]]

StoredTeam(sid) ==
    [last_active_season |-> teams_table[sid].last_active_season,
     data |-> teams_table[sid].data]

UpsertFailed(sid) ==
    \E i \in 1..Len(errors) : errors[i].kind = "upsert_team" /\ errors[i].who = sid

\* C21 as stated: after both phases every team of the snapshots that has a
\* row in the teams table has there the greatest season in which it
\* appears and the attributes of its first entry of that season.
C21_Original ==
    pc = "map" =>
        \A sid \in SourceIds :
            (seasons_appeared(sid) # {} /\ sid \in DOMAIN teams_table) =>
                StoredTeam(sid) = ExpectedTeam(sid)

\* C21 amended: all_teams_map holds, for exactly the teams that appear in a
\* collected snapshot, the greatest such season and the first entry of the
\* team in it; upsert_teams stores just that for every team whose upsert
\* succeeds, keeping the id of a row that was there; a team whose upsert
\* raises keeps the row it had before the run, or none.
C21_LastSeasonAndData ==
    /\ DOMAIN all_teams_map = {sid \in SourceIds : seasons_appeared(sid) # {}}
    /\ \A sid \in DOMAIN all_teams_map :
        /\ all_teams_map[sid].last_season = LastAppearance(sid)
        /\ all_teams_map[sid].data = EntriesOf(LastAppearance(sid), sid)[1]
    /\ pc = "collect" => errors = SelectSeq(errors, LAMBDA e : e.kind = "fetch")
    /\ pc = "map" =>
        \A sid \in DOMAIN all_teams_map :
            IF UpsertFailed(sid)
            THEN sid \in DOMAIN teams_table => teams_table[sid] = StaleTeams[sid]
            ELSE /\ sid \in DOMAIN teams_table
                 /\ StoredTeam(sid) = ExpectedTeam(sid)
                 /\ teams_table[sid].id \in TeamIds

\* the team's last season holds two different entries; the first one was
\* upserted over the row of an earlier run
C21_Witness ==
    /\ pc = "map"
    /\ \E sid \in DOMAIN teams_table :
        /\ ~UpsertFailed(sid)
        /\ Cardinality(seasons_appeared(sid)) >= 2
        /\ Len(EntriesOf(LastAppearance(sid), sid)) = 2
        /\ EntriesOf(LastAppearance(sid), sid)[1] # EntriesOf(LastAppearance(sid), sid)[2]
        /\ StoredTeam(sid) = ExpectedTeam(sid)
        /\ teams_table[sid] # StaleTeams[sid]
        /\ teams_table[sid].id = StaleTeams[sid].id

\* --------------------------------------------------------------------- C22
C22_MinMax ==
    /\ DOMAIN players = DOMAIN supplied
    /\ \A a \in DOMAIN players :
        /\ players[a].first_season = MinOf(supplied[a].starts)
        /\ players[a].last_season = MaxOf(supplied[a].ends)

C22_Step ==
    \A a \in DOMAIN players :
        /\ a \in DOMAIN players'
        /\ players'[a].first_season <= players[a].first_season
        /\ players'[a].last_season >= players[a].last_season

\* C22: after any sequence of upsert_player calls that returned, the row of
\* an athlete holds the least start season and the greatest end season
\* handed to the calls for that athlete, whatever the order of the calls;
\* no call raises first_season or lowers last_season.
C22_SeasonsAreMinAndMax == []C22_MinMax /\ [][C22_Step]_vars

\* three calls for one athlete, a later season imported before an earlier
\* one, with different start and end seasons
C22_Witness ==
    \E a \in DOMAIN players :
        /\ Len(supplied[a].seasons) = 3
        /\ supplied[a].seasons[1] > supplied[a].seasons[2]
        /\ supplied[a].seasons[2] < supplied[a].seasons[3]
        /\ Cardinality(supplied[a].starts) >= 2
        /\ Cardinality(supplied[a].ends) >= 2
        /\ players[a].first_season < players[a].last_season

\* --------------------------------------------------------------------- C23
\* the records of rankings_data that share one composite key
Sharing(key) ==
    {i \in 1..Len(rankings_data) : composite_key(rankings_data[i]) = key}

DedupDone == pc = "rankings" /\ rank_pos = Len(rankings_data)

\* C23 as stated: when the loop has ended rankings_dict holds one record
\* for each composite key of the data, that record has a poll_date when
\* any record of its key has one, and has the highest points of its key
\* when none has one.
C23_Claim ==
    DedupDone =>
        /\ DOMAIN rankings_dict =
               {composite_key(rankings_data[i]) : i \in 1..Len(rankings_data)}
        /\ \A key \in DOMAIN rankings_dict :
            LET kept == rankings_dict[key]
                dated == {i \in Sharing(key) : poll_date_of(rankings_data[i]) # Null}
            IN /\ \E i \in Sharing(key) : kept = ranking_record(rankings_data[i])
               /\ dated # {} => kept.poll_date # Null
               /\ dated = {} =>
                    \A i \in Sharing(key) : kept.points >= rankings_data[i].points

\* --------------------------------------------------------------------- C24
\* the write calls that returned and held the record
WrittenIn(id) == {k \in 1..Len(writes) : writes[k].ok /\ id \in Range(writes[k].ids)}

\* occurrences of the record in a list of ids
Times(id, ids) == Cardinality({n \in 1..Len(ids) : ids[n] = id})

\* C24: in the loops with individual retry the inserted count is the number
\* of records held by a write that returned, no record is held by two such
\* writes, a record is in the failed list only when its own write raised,
\* and once the loop has ended every prepared record is either counted as
\* inserted or listed as failed, never both: inserted + failed = prepared.
C24_AccountedOnce ==
    script \in RetryScripts =>
        /\ \A i \in 1..Len(records) :
            /\ Cardinality(WrittenIn(records[i].id)) <= 1
            /\ Times(records[i].id, stored) = Cardinality(WrittenIn(records[i].id))
            /\ Times(records[i].id, failed_records) <= 1
            /\ Times(records[i].id, failed_records) = 1 =>
                /\ WrittenIn(records[i].id) = {}
                /\ \E k \in 1..Len(writes) :
                    writes[k] = [kind |-> "single", ids |-> <<records[i].id>>,
                                 ok |-> FALSE]
        /\ total_inserted = Len(stored)
        /\ Range(stored) \cup Range(failed_records) \subseteq Range(IdsOf(records))
        /\ UploadEnded =>
            /\ total_inserted + Len(failed_records) = Len(records)
            /\ \A i \in 1..Len(records) :
                Times(records[i].id, stored) + Times(records[i].id, failed_records) = 1

\* a stats loop has ended: a batch was written whole, another failed and
\* was retried, one of its records went in and the other failed
C24_Witness ==
    /\ script = "team_game_stats"
    /\ upc = "finished"
    /\ Len(records) = MaxRecords
    /\ total_inserted = MaxRecords - 1
    /\ Len(failed_records) = 1
    /\ \E k \in 1..Len(writes) : writes[k].kind = "batch" /\ writes[k].ok
    /\ \E k \in 1..Len(writes) : writes[k].kind = "single" /\ writes[k].ok

\* --------------------------------------------------------------------- C29
Aborted == script = "games" /\ upc = "aborted"

\* C29 as stated: when the operator aborts at the duplicate prompt the
\* games table is as it was: nothing inserted, nothing deleted.
C29_Original ==
    Aborted =>
        /\ stored = <<>>
        /\ existing_games = ExistingGames

\* C29 amended: the script aborts only at the duplicate prompt, on an
\* answer other than 1 or 2, and then has made no insert call and written
\* no record; the rows the table held are all still there unless the
\* operator answered 1 at the clear prompt, in which case the delete of
\* line 32 ran before the CSV was read and the table is empty, or as it
\* was when that delete raised.
C29_AbortInsertsNothing ==
    Aborted =>
        /\ duplicated(csv) # {}
        /\ dup_choice \notin {"", "1", "2"}
        /\ stored = <<>> /\ writes = <<>> /\ records = <<>>
        /\ total_inserted = 0 /\ failed_records = <<>>
        /\ clear_choice # "1" => existing_games = ExistingGames
        /\ clear_choice = "1" =>
            \/ existing_games = <<>> /\ failures = 0
            \/ existing_games = ExistingGames /\ failures = 1

\* the operator had the table cleared, the delete went through, and then
\* aborted at the duplicate prompt
C29_Witness ==
    /\ Aborted
    /\ clear_choice = "1"
    /\ existing_games = <<>>
    /\ dup_choice = "3"

\* --------------------------------------------------------------------- C25
\* the seasons after s that are in the snapshot map, ascending
PresentAfter(s) ==
    SortedSeq({f \in (s + 1)..LastSeason : f \in DOMAIN all_seasons_data})

\* the scan over a list of seasons that are all in the map
RECURSIVE ScanPresent(_, _)
ScanPresent(sid, seasons) ==
    IF seasons = <<>> THEN Null
    ELSE IF Len(EntriesOf(Head(seasons), sid)) = 1
    THEN EntriesOf(Head(seasons), sid)[1].conferenceId
    ELSE IF Len(EntriesOf(Head(seasons), sid)) = 0 THEN Null
    ELSE ScanPresent(sid, Tail(seasons))

\* C25: the scan never returns at a season that is absent from the map, the
\* seasons it has passed over leave its outcome open, and what it returns is
\* what the scan over the present seasons alone returns.
C25_AbsentSeasonsSkipped ==
    /\ find_eventual_conference(scan_team, scan_start) =
           ScanPresent(scan_team, PresentAfter(scan_start))
    /\ scan_pc = "loop" =>
        ScanPresent(scan_team, PresentAfter(future_season - 1)) =
            ScanPresent(scan_team, PresentAfter(scan_start))
    /\ scan_pc = "returned" =>
        /\ scan_result = ScanPresent(scan_team, PresentAfter(scan_start))
        /\ future_season <= LastSeason => future_season \in DOMAIN all_seasons_data

\* the season after the start is absent and the next one, present, holds no
\* entry of the team: the scan went past the first and ended at the second
C25_Witness ==
    /\ scan_pc = "returned"
    /\ scan_start + 1 \notin DOMAIN all_seasons_data
    /\ future_season = scan_start + 2
    /\ future_season \in DOMAIN all_seasons_data
    /\ EntryCount(scan_team, future_season) = 0
    /\ scan_result = Null

\* --------------------------------------------------------------------- C26
\* the scan from s stops at a season that holds one entry of the team,
\* whose conferenceId is null
StopsAtNullSingle(sid, s) ==
    /\ Stops(sid, s) # {}
    /\ EntryCount(sid, MinOf(Stops(sid, s))) = 1
    /\ EntriesOf(MinOf(Stops(sid, s)), sid)[1].conferenceId = Null

\* C26, for the teams that have a team_id: when the scan for a team and
\* season with two or more entries stops at a single entry with a null
\* conference, the resolver logs the no-eventual-conference warning and
\* emits exactly one row, with the smallest conference id reported.
C26_Claim ==
    \A sid \in DOMAIN team_id_map : \A s \in Seasons :
        (/\ NumEntries(sid, s) >= 2
         /\ StopsAtNullSingle(sid, s)
         /\ Handled(sid, s) \/ CrashedAt(sid, s)) =>
            /\ Logged(warnings, "no_eventual", sid, s)
            /\ ~Logged(warnings, "all_match", sid, s)
            /\ Len(Emitted(sid, s)) = 1
            /\ Emitted(sid, s)[1].conference_id = MinOf(Reported(sid, s))

\* --------------------------------------------------------------------- C27
\* the conference ids build_conference_history hands to insert() for a team
\* and season, from the snapshots of that and later seasons and the map
ExpectedConfs(sid, s) ==
    IF sid \notin DOMAIN team_id_map \/ NumEntries(sid, s) = 0 THEN <<>>
    ELSE IF NumEntries(sid, s) = 1 THEN ConfsOf(EntriesOf(s, sid))
    ELSE IF find_eventual_conference(sid, s) # Null THEN NonEventual(sid, s)
    ELSE IF SortRaises(ConfsOf(EntriesOf(s, sid))) THEN <<>>
    ELSE <<SmallestConference(ConfsOf(EntriesOf(s, sid)))>>

EmittedConfs(sid, s) ==
    [i \in 1..Len(Emitted(sid, s)) |-> Emitted(sid, s)[i].conference_id]

\* C27: once build_conference_history has ended, in whatever way, its
\* insert attempts are for every team and season those that the snapshots
\* of that and later seasons and the team-id map determine, which is what
\* any order of the seasons would give.
C27_Claim ==
    (ResolverDone \/ pc = "crashed") =>
        \A sid \in SourceIds : \A s \in Seasons :
            EmittedConfs(sid, s) = ExpectedConfs(sid, s)

\* --------------------------------------------------------------------- C28
NoTeamIdWarnings(sid) ==
    SelectSeq(warnings, LAMBDA e : e.kind = "no_team_id" /\ e.who = sid)

\* C28: every row handed to insert() by either pass carries the team_id of
\* a source_id of the team-id map, the resolver's for a season in which that
\* team has an entry; a team outside the map adds no row to the table; the
\* missing-team_id warning is logged once for such a team, at the first
\* season processed in which it appears, and never for an entry without
\* source_id or a team of the map.
C28_UnmappedTeamsSkipped ==
    /\ \A i \in 1..Len(attempts) :
        \E sid \in DOMAIN team_id_map :
            /\ team_id_map[sid] = attempts[i].team_id
            /\ attempts[i].by = "resolver" => Appears(sid, attempts[i].season)
    /\ team_id_map = <<>> => (attempts = <<>> /\ history \in {<<>>, StaleTable})
    /\ \A sid \in SourceIds \cup {NoSource} :
        /\ Len(NoTeamIdWarnings(sid)) <= 1
        /\ (sid \in DOMAIN team_id_map \/ sid = NoSource) =>
            NoTeamIdWarnings(sid) = <<>>
        /\ (sid \in SourceIds \ DOMAIN team_id_map) =>
            /\ (NoTeamIdWarnings(sid) # <<>>) = (sid \in teams_without_id)
            /\ (\E s \in Seasons : Appears(sid, s) /\ Handled(sid, s)) =>
                /\ Len(NoTeamIdWarnings(sid)) = 1
                /\ Appears(sid, NoTeamIdWarnings(sid)[1].season)
                /\ \A s \in Seasons :
                    Appears(sid, s) => s <= NoTeamIdWarnings(sid)[1].season

\* both passes have ended for a team outside the map that appears in two
\* seasons with a gap year between them: one warning, no row
C28_Witness ==
    /\ pc = "done"
    /\ \E sid \in SourceIds \ DOMAIN team_id_map :
        /\ Appears(sid, FirstSeason)
        /\ ~Appears(sid, FirstSeason + 1)
        /\ Appears(sid, FirstSeason + 2)
        /\ Len(NoTeamIdWarnings(sid)) = 1
    /\ attempts = <<>>
    /\ history = <<>>

====
